---- MODULE Spec2Model ----
(***************************************************************************)
(* Command dispatch and action-lifecycle engine of mqtt-hyundai-kia:       *)
(* the circuit breaker and the credential retry of HyundaiAPIClient, the   *)
(* two consumer loops of CommandHandler and the per-action status pollers. *)
(*                                                                         *)
(* One step of the model is what one asyncio task executes between two     *)
(* suspension points.  The only awaits that really suspend are the remote  *)
(* calls run with asyncio.to_thread, the wait for the re-authentication    *)
(* lock when it is held, and Queue.get on an empty queue; the publish      *)
(* coroutines of MQTTClient contain no await and run to completion inside  *)
(* the step that calls them.  A publication is the call of the bus         *)
(* capability publish(topic, payload, qos, retain).                        *)
(***************************************************************************)
EXTENDS Integers, Sequences, FiniteSets, TLC

\* ---------------------------------------------------------------- bounds
MaxTicks == 1          \* clock advances in a behaviour
MaxQueue == 1          \* commands waiting in one queue
MaxActions == 1        \* poller tasks alive at the same time
MaxPollers == 2        \* poller tasks the model has room for
MaxAttempts == 3       \* remote calls one invocation may be seen to issue
MaxFailures == 6       \* cap of failure_count
MaxHistory == 2        \* update_status calls on one record (SpecTracker)
MaxFineTicks == 2      \* clock advances in a behaviour of the refresh side
MaxFifo == 2           \* commands waiting in one queue where their order is checked
MaxTransitions == 3    \* update_action_state calls on one state machine

\* ------------------------------------------------------ program constants
failure_threshold == 5 \* CircuitBreaker.__init__ default
timeout == 60          \* CircuitBreaker.__init__ default
_min_command_interval == 5
TokenDebounce == 30
SecondsPerDay == 86400 \* range of timedelta.seconds

None == -1             \* Python's None for an optional datetime

TickSteps == {61}     \* how far the clock may jump between two steps
\* Steps of the clock for the re-authentication of the refresh loop: around
\* the debounce window, and one day.
DebounceSteps == {29, 30, 86400}
\* Steps of the clock for the throttle: around the minimum command interval.
FineSteps == {4, 5}
Vehicles == {"VIN1"}
\* The vehicles of the account; the refresh side is checked with both.
Fleet == {"VIN1", "VIN2"}
ActionIds == {"a1", "a2"}

RefreshLoop == 1
ControlLoop == 2
FirstPoller == 3
PollerTask(k) == FirstPoller + k - 1
TrackerOf(t) == t - FirstPoller + 1
Tasks == RefreshLoop .. (FirstPoller + MaxPollers - 1)

TerminalStatuses == {"SUCCESS", "FAILED", "TIMEOUT", "UNKNOWN"}

\* ------------------------------------------------------- CircuitBreaker
\* CircuitBreaker.__init__
CircuitBreaker == [state |-> "CLOSED", failure_count |-> 0, last_failure_time |-> None]

\* can_execute with a rejection counted as one more failure
can_execute_counting(cb, t) ==
    IF cb.state = "CLOSED" THEN [result |-> TRUE, cb |-> cb]
    ELSE IF cb.state = "OPEN" THEN
        IF cb.last_failure_time # None /\ t - cb.last_failure_time > timeout
        THEN [result |-> TRUE, cb |-> [cb EXCEPT !.state = "HALF_OPEN"]]
        ELSE [result |-> FALSE, cb |-> [cb EXCEPT !.failure_count = @ + 1]]
    ELSE [result |-> TRUE, cb |-> cb]

\* CircuitBreaker.can_execute at time t: the answer and the breaker afterwards
can_execute(cb, t) ==
    IF cb.state = "CLOSED" THEN [result |-> TRUE, cb |-> cb]
    ELSE IF cb.state = "OPEN" THEN
        IF cb.last_failure_time # None /\ t - cb.last_failure_time > timeout
        THEN [result |-> TRUE, cb |-> [cb EXCEPT !.state = "HALF_OPEN"]]
        ELSE [result |-> FALSE, cb |-> cb]
    ELSE [result |-> TRUE, cb |-> cb]

\* record_success closing the breaker without clearing its count
record_success_keeping_count(cb) == [cb EXCEPT !.state = "CLOSED"]

\* CircuitBreaker.record_success
record_success(cb) == [cb EXCEPT !.failure_count = 0, !.state = "CLOSED"]

\* record_failure opening one failure late (> in place of >=)
record_failure_late(cb, t) ==
    [state |-> IF cb.failure_count + 1 > failure_threshold THEN "OPEN" ELSE cb.state,
     failure_count |-> cb.failure_count + 1,
     last_failure_time |-> t]

\* CircuitBreaker.record_failure at time t
record_failure(cb, t) ==
    [state |-> IF cb.failure_count + 1 >= failure_threshold THEN "OPEN" ELSE cb.state,
     failure_count |-> cb.failure_count + 1,
     last_failure_time |-> t]

\* ------------------------------------------------------ HyundaiAPIClient
RefreshMethods == {"refresh_cached", "refresh_force", "refresh_smart"}
ControlMethods == {"lock_vehicle", "unlock_vehicle", "start_climate", "stop_climate",
                   "set_windows_state", "open_charge_port", "close_charge_port",
                   "set_charging_current"}
ApiMethods == RefreshMethods \cup ControlMethods \cup {"check_action_status"}

\* Does the method call circuit_breaker.record_success() before it returns?
\* Every refresh and control method does; check_action_status returns the
\* parsed status without touching the breaker.
RecordsSuccess(m) == m # "check_action_status"

\* The exception a method raises when the breaker rejects the call.
CircuitOpenError == [type |-> "HyundaiAPIError", msg |-> "Circuit breaker is open"]

\* The exception a method raises after record_failure().
RemoteFailure(m) ==
    [type |-> IF m \in RefreshMethods THEN "RefreshError" ELSE "HyundaiAPIError",
     msg |-> CASE m = "refresh_cached" -> "Cached refresh failed"
               [] m = "refresh_force" -> "Force refresh failed"
               [] m = "refresh_smart" -> "Smart refresh failed"
               [] m = "lock_vehicle" -> "Lock command failed"
               [] m = "unlock_vehicle" -> "Unlock command failed"
               [] m = "start_climate" -> "Start climate command failed"
               [] m = "stop_climate" -> "Stop climate command failed"
               [] m = "set_windows_state" -> "Set windows command failed"
               [] m = "open_charge_port" -> "Open charge port command failed"
               [] m = "close_charge_port" -> "Close charge port command failed"
               [] m = "set_charging_current" -> "Set charging current command failed"
               [] OTHER -> "Action status check failed"]

\* What vehicle_manager.check_and_refresh_token raises; it leaves
\* _refresh_token_safely and the API method unwrapped.
ReauthFailure == [type |-> "Exception", msg |-> "authentication failed"]

\* The debounce test of _refresh_token_safely at time t.
DebounceSkips(lrt, t) == lrt # None /\ ((t - lrt) % SecondsPerDay) < TokenDebounce

\* A task's position inside an API method: the method, the number of remote
\* calls the invocation has issued, and (for the properties below) whether
\* the invocation is the trial, the call whose can_execute() moved the
\* breaker from OPEN to HALF_OPEN, and how many times the invocation has
\* run check_and_refresh_token.
IdleCall == [phase |-> "idle", method |-> "none", attempts |-> 0, trial |-> FALSE, reauths |-> 0]
RemoteCall(m, n, trial) ==
    [phase |-> "remote", method |-> m, attempts |-> n, trial |-> trial, reauths |-> 0]


\* ---------------------------------------------------------- ActionTracker
NoTracker ==
    [action_id |-> "", command_type |-> "none", vehicle_id |-> "",
     started_at |-> None, last_status |-> "", completed_at |-> None,
     error_message |-> "", status_history |-> <<>>,
     poller |-> "none", published |-> <<>>]

\* What one step did, for the properties below (not program state):
\*   call      how the remote call that was in flight ended in this step
\*   gate      whether can_execute() was evaluated in this step, and its answer
\*   reauth    what _refresh_token_safely did in this step
\*   recorded  the record_success()/record_failure() call made in this step
\*   raised    message of the exception an API method surfaced to its caller
\*   dropped   why a dequeued command was dropped without any API call
\*   pubs      publish_error_status / publish_vehicle_data calls of this step
\*   finished  the ActionTracker whose poller task ended in this step
\*   attempts  remote calls the invocation had issued when its call ended
\*   reauths   re-authentications the invocation had performed by then
NoEvent(t, m) ==
    [task |-> t, method |-> m, call |-> "none", gate |-> "none", gate_method |-> "none",
     reauth |-> "none", recorded |-> "none", raised |-> "", dropped |-> "",
     pubs |-> <<>>, finished |-> NoTracker, attempts |-> 0, reauths |-> 0]

\* ------------------------------------------------------------- commands
\* An MQTT message: the topic as the list topic.split("/") of its levels, the
\* payload as the list of its tokens; handler is the method it was handed to.
NoMessage == [handler |-> "none", topic |-> <<>>, payload |-> <<>>]

NoRefresh == [command_type |-> "none", vehicle_id |-> "", max_age_seconds |-> None,
              timestamp |-> None]
NoControl == [command_type |-> "none", vehicle_id |-> "",
              payload |-> [action |-> "", level |-> None, windows |-> <<>>]]

\* Results of RefreshCommand.parse that enqueue_command is given in this model.
RefreshParses ==
    {[ok |-> TRUE, command |-> [command_type |-> ct, vehicle_id |-> v, max_age_seconds |-> None,
                                timestamp |-> None]] :
        ct \in {"cached", "force"}, v \in Vehicles}
    \cup {[ok |-> TRUE, command |-> [command_type |-> "smart", vehicle_id |-> v, max_age_seconds |-> 300,
                                timestamp |-> None]] :
        v \in Vehicles}
    \cup {[ok |-> FALSE, command |-> NoRefresh]}

\* Results of RefreshCommand.parse on the refresh side: every vehicle of the fleet.
FleetRefreshParses ==
    {[ok |-> TRUE, command |-> [command_type |-> ct, vehicle_id |-> v, max_age_seconds |-> None,
                                timestamp |-> None]] :
        ct \in {"cached", "force"}, v \in Fleet}
    \cup {[ok |-> FALSE, command |-> NoRefresh]}

\* Results of ControlCommand.parse that enqueue_control_command is given.
ControlParses ==
    {[ok |-> TRUE, command |-> [command_type |-> "lock", vehicle_id |-> v,
                                payload |-> [action |-> a, level |-> None, windows |-> <<>>]]] :
        v \in Vehicles, a \in {"lock", "bogus"}}
    \cup {[ok |-> TRUE, command |-> [command_type |-> "climate", vehicle_id |-> v,
                                payload |-> [action |-> "stop_climate", level |-> None, windows |-> <<>>]]] :
        v \in Vehicles}
    \cup {[ok |-> FALSE, command |-> NoControl]}

\* As RefreshMethodFor, a smart refresh being served as a forced one.
RefreshMethodFor_smart_as_force(c) ==
    CASE c.command_type = "cached" -> "refresh_cached"
      [] c.command_type = "force" -> "refresh_force"
      [] c.command_type = "smart" -> "refresh_force"
      [] OTHER -> "none"

\* handle_command's choice of the refresh strategy (handler.py 309-322)
RefreshMethodFor(c) ==
    CASE c.command_type = "cached" -> "refresh_cached"
      [] c.command_type = "force" -> "refresh_force"
      [] c.command_type = "smart" -> "refresh_smart"
      [] OTHER -> "none"

\* update_method of the snapshot map_vehicle_data builds in each refresh method
UpdateMethod(m) ==
    CASE m = "refresh_cached" -> "cached"
      [] m = "refresh_force" -> "force"
      [] OTHER -> "smart"

\* _execute_command: the from_control_command validation and the API method
\* the command is dispatched to; ok = FALSE is the CommandError it raises.
_execute_command(c) ==
    LET p == c.payload
        bad(msg) == [ok |-> FALSE, method |-> "none",
                     exc |-> [type |-> "CommandError", msg |-> msg]]
        call(m) == [ok |-> TRUE, method |-> m, exc |-> [type |-> "", msg |-> ""]]
    IN  CASE c.command_type = "lock" ->
               IF p.action \notin {"lock", "unlock"} THEN bad("Invalid lock action")
               ELSE IF p.action = "lock" THEN call("lock_vehicle") ELSE call("unlock_vehicle")
          [] c.command_type = "climate" ->
               IF p.action \notin {"start_climate", "stop_climate"} THEN bad("Invalid climate action")
               ELSE IF p.action = "start_climate" THEN call("start_climate") ELSE call("stop_climate")
          [] c.command_type = "windows" ->
               IF \E i \in DOMAIN p.windows : p.windows[i] # None /\ p.windows[i] \notin {0, 1, 2}
               THEN bad("Invalid window state") ELSE call("set_windows_state")
          [] c.command_type = "charge_port" ->
               IF p.action \notin {"open", "close"} THEN bad("Invalid charge port action")
               ELSE IF p.action = "open" THEN call("open_charge_port") ELSE call("close_charge_port")
          [] c.command_type = "charging_current" ->
               IF p.level \notin {1, 2, 3} THEN bad("Invalid charging current level")
               ELSE call("set_charging_current")
          [] OTHER -> bad("Unknown command type")

\* The ActionTracker handle_control_command builds (handler.py 414-422);
\* poller and published belong to the model: the position of the record's
\* poller task, and the _publish_action_status calls made for the record.
NewTracker(action_id, c, t) ==
    [action_id |-> action_id, command_type |-> c.command_type, vehicle_id |-> c.vehicle_id,
     started_at |-> t, last_status |-> "PENDING", completed_at |-> None,
     error_message |-> "", status_history |-> <<>>,
     poller |-> "spawned", published |-> <<>>]

\* ActionTracker.update_status at time t
update_status(tr, status, error, t) ==
    [tr EXCEPT !.last_status = status,
               !.status_history = Append(@, <<t, status>>),
               !.error_message = IF error # "" THEN error ELSE @,
               !.completed_at = IF status \in TerminalStatuses THEN t ELSE @]

\* As _publish_action_status, writing the completed_at leaf on every call.
_publish_action_status_always_completed(tr, status, error) ==
    [tr EXCEPT !.published = Append(@, [status |-> status,
                                        started_at |-> tr.started_at # None,
                                        completed_at |-> TRUE,
                                        error |-> error # "",
                                        retain |-> FALSE])]

\* CommandHandler._publish_action_status: the leaves written by one call
\* (status always, the others when their value is set), all with retain=False
_publish_action_status(tr, status, error) ==
    [tr EXCEPT !.published = Append(@, [status |-> status,
                                        started_at |-> tr.started_at # None,
                                        completed_at |-> tr.completed_at # None,
                                        error |-> error # "",
                                        retain |-> FALSE])]

\* Responses of vehicle_manager.check_action_status: an enum member (name),
\* a string or a dictionary (keywords: which of the fragments the upper-cased
\* status text contains; text: whether the dictionary's status is a string).
Keywords == {"SUCCESS", "COMPLETE", "FAIL", "ERROR", "PENDING", "PROCESSING", "TIMEOUT"}
StatusResponses ==
    {[shape |-> "enum", name |-> n, keywords |-> {}, text |-> TRUE] :
        n \in {"SUCCESS", "FAILED", "TIMEOUT", "PENDING"}}
    \cup {[shape |-> "str", name |-> "", keywords |-> k, text |-> TRUE] :
        k \in {{"COMPLETE"}, {"PROCESSING"}, {}}}
    \cup {[shape |-> "dict", name |-> "", keywords |-> {"ERROR", "TIMEOUT"}, text |-> TRUE],
          [shape |-> "dict", name |-> "", keywords |-> {}, text |-> FALSE],
          [shape |-> "other", name |-> "", keywords |-> {}, text |-> FALSE]}

\* HyundaiAPIClient._parse_action_status
_parse_action_status(r) ==
    IF r.shape = "enum" THEN r.name
    ELSE IF r.shape \in {"str", "dict"} THEN
        IF "SUCCESS" \in r.keywords \/ "COMPLETE" \in r.keywords THEN "SUCCESS"
        ELSE IF "FAIL" \in r.keywords \/ "ERROR" \in r.keywords THEN "FAILED"
        ELSE IF "PENDING" \in r.keywords \/ "PROCESSING" \in r.keywords THEN "PENDING"
        ELSE IF "TIMEOUT" \in r.keywords THEN "TIMEOUT"
        ELSE "UNKNOWN"
    ELSE "UNKNOWN"

\* status_response.get("status", "").upper() raises on a status that is no string
ParseRaises(r) == r.shape = "dict" /\ ~r.text

\* -------------------------------------------------- EUActionStateMachine
VALID_STATES == {"PENDING", "SUCCESS", "FAILED", "TIMEOUT", "UNKNOWN"}
TERMINAL_STATES == {"SUCCESS", "FAILED", "TIMEOUT", "UNKNOWN"}

\* EUActionStateMachine.__init__ at time 0; new_state and returned belong
\* to the model: the argument and the return value of the last
\* update_action_state call on the machine.
EUActionStateMachine ==
    [current_state |-> "PENDING", state_history |-> <<<<0, "PENDING">>>>,
     new_state |-> "", returned |-> FALSE]

\* As update_action_state, without the test of the terminal state.
update_action_state_from_terminal(sm, new_state, t) ==
    IF new_state \notin VALID_STATES
    THEN [sm EXCEPT !.new_state = new_state, !.returned = FALSE]
    ELSE [sm EXCEPT !.current_state = new_state,
                    !.state_history = Append(@, <<t, new_state>>),
                    !.new_state = new_state, !.returned = TRUE]

\* EUActionStateMachine.update_action_state(new_state) at time t; it holds
\* no await, so a call runs as one step
update_action_state(sm, new_state, t) ==
    IF new_state \notin VALID_STATES
    THEN [sm EXCEPT !.new_state = new_state, !.returned = FALSE]
    ELSE IF sm.current_state \in TERMINAL_STATES
    THEN [sm EXCEPT !.new_state = new_state, !.returned = FALSE]
    ELSE [sm EXCEPT !.current_state = new_state,
                    !.state_history = Append(@, <<t, new_state>>),
                    !.new_state = new_state, !.returned = TRUE]


\* ------------------------------------------------------------------ state
VARIABLES
    state_machine,          \* an EUActionStateMachine and its last update_action_state call
    message,                \* the (topic, payload) last handed to an enqueue method
    service,                \* HyundaiMQTTService.run: "running", "stopping", "stopped"
    now,                    \* datetime.utcnow(), seconds
    ticks,                  \* clock advances so far
    circuit_breaker,        \* HyundaiAPIClient.circuit_breaker
    token_refresh_lock,     \* task holding _token_refresh_lock, 0 when free
    last_refresh_time,      \* HyundaiAPIClient._last_refresh_time
    api,                    \* per task: its position inside an API method
    command_queue,          \* CommandHandler._command_queue
    control_command_queue,  \* CommandHandler._control_command_queue
    last_command_time,      \* CommandHandler._last_command_time
    accepted_timestamp,     \* per vehicle: RefreshCommand.timestamp of the last refresh that
                            \* passed the throttle (for the properties below)
    handling_refresh,       \* the command process_commands is handling
    handling_control,       \* the command process_control_commands is handling
    trackers,               \* per poller task: the ActionTracker it polls, NoTracker when none
    active_actions,         \* CommandHandler._active_actions: action_id -> tracker, 0 absent
    outcome                 \* what the last step did (see NoEvent)

vars == <<state_machine, message, service, now, ticks, circuit_breaker, token_refresh_lock, last_refresh_time, api,
          command_queue, control_command_queue, last_command_time, accepted_timestamp,
          handling_refresh, handling_control, trackers, active_actions, outcome>>

Init ==
    /\ state_machine = EUActionStateMachine
    /\ message = NoMessage
    /\ service = "running"
    /\ now = 0
    /\ ticks = 0
    /\ circuit_breaker = CircuitBreaker
    /\ token_refresh_lock = 0
    /\ last_refresh_time = None
    /\ api = [t \in Tasks |-> IdleCall]
    /\ command_queue = <<>>
    /\ control_command_queue = <<>>
    /\ last_command_time = [v \in Fleet |-> None]
    /\ accepted_timestamp = [v \in Fleet |-> None]
    /\ handling_refresh = NoRefresh
    /\ handling_control = NoControl
    /\ trackers = [k \in 1..MaxPollers |-> NoTracker]
    /\ active_actions = [a \in ActionIds |-> 0]
    /\ outcome = NoEvent(0, "none")

\* The state one step of task t works on; Commit writes it back.
Cur(t, m) ==
    [cb |-> circuit_breaker, lock |-> token_refresh_lock, lrt |-> last_refresh_time,
     api |-> api, hr |-> handling_refresh, hc |-> handling_control, tr |-> trackers,
     aa |-> active_actions, ev |-> NoEvent(t, m)]

Commit(s) ==
    /\ circuit_breaker' = s.cb
    /\ token_refresh_lock' = s.lock
    /\ last_refresh_time' = s.lrt
    /\ api' = s.api
    /\ handling_refresh' = s.hr
    /\ handling_control' = s.hc
    /\ trackers' = s.tr
    /\ active_actions' = s.aa
    /\ outcome' = s.ev

\* MQTTClient.publish_error_status: the retained status/error leaf of the
\* vehicle, null (no exception) or the error details
NoError == [type |-> "", msg |-> ""]
publish_error_status(s, v, exc, ctype) ==
    [s EXCEPT !.ev.pubs = Append(@,
        IF exc = NoError
        THEN [leaf |-> "status/error", vehicle_id |-> v, value |-> "null", error |-> "",
              error_type |-> "", command_type |-> "", retain |-> TRUE]
        ELSE [leaf |-> "status/error", vehicle_id |-> v, value |-> "error", error |-> exc.msg,
              error_type |-> exc.type, command_type |-> ctype, retain |-> TRUE])]

\* MQTTClient.publish_vehicle_data: the snapshot of the refresh method m
publish_vehicle_data(s, v, m) ==
    [s EXCEPT !.ev.pubs = Append(@,
        [leaf |-> "data", vehicle_id |-> v, value |-> UpdateMethod(m), error |-> "",
         error_type |-> "", command_type |-> "", retain |-> TRUE])]

\* handle_command publishing the data of a successful refresh and leaving
\* the error status as it was
handle_command_done_keeping_error(s, m) ==
    LET c == s.hr
        s1 == publish_vehicle_data(s, c.vehicle_id, m)
    IN  [s1 EXCEPT !.api[RefreshLoop] = IdleCall, !.hr = NoRefresh]

\* handle_command after the refresh method returned (handler.py 324-330)
handle_command_done(s, m) ==
    LET c == s.hr
        s1 == publish_vehicle_data(s, c.vehicle_id, m)
        s2 == publish_error_status(s1, c.vehicle_id, NoError, c.command_type)
    IN  [s2 EXCEPT !.api[RefreshLoop] = IdleCall, !.hr = NoRefresh]

\* handle_command's except branch followed by a process_commands that lets
\* the exception end its loop
handle_command_except_ending(s, exc) ==
    LET c == s.hr
        s1 == publish_error_status(s, c.vehicle_id, exc, c.command_type)
    IN  [s1 EXCEPT !.api[RefreshLoop] = [IdleCall EXCEPT !.phase = "cancelled"], !.hr = NoRefresh]

\* handle_command's except branch (handler.py 332-346)
handle_command_except(s, exc) ==
    LET c == s.hr
        s1 == publish_error_status(s, c.vehicle_id, exc, c.command_type)
    IN  [s1 EXCEPT !.api[RefreshLoop] = IdleCall, !.hr = NoRefresh]

\* The poller task that will run for the next accepted action.
FreeSlot(tr) == CHOOSE k \in 1..MaxPollers : tr[k] = NoTracker /\ \A j \in 1..(k-1) : tr[j] # NoTracker

\* handle_control_command awaiting the poller instead of spawning it
handle_control_command_awaiting_poller(s, action_id) ==
    LET c == s.hc
        k == FreeSlot(s.tr)
        tracker == _publish_action_status(NewTracker(action_id, c, now), "PENDING", "")
    IN  [s EXCEPT !.tr[k] = tracker,
                  !.aa[action_id] = k,
                  !.api[ControlLoop] = [IdleCall EXCEPT !.phase = "polling"]]

\* handle_control_command after _execute_command returned action_id
\* (handler.py 413-431): tracker, registry, PENDING publication, poller task
handle_control_command_accepted(s, action_id) ==
    LET c == s.hc
        k == FreeSlot(s.tr)
        tracker == _publish_action_status(NewTracker(action_id, c, now), "PENDING", "")
    IN  [s EXCEPT !.tr[k] = tracker,
                  !.aa[action_id] = k,
                  !.api[ControlLoop] = IdleCall,
                  !.hc = NoControl]

\* handle_control_command's except branch publishing a FAILED action status
\* for the command instead of the vehicle's error status
handle_control_command_except_as_action(s, exc) ==
    LET c == s.hc
        k == FreeSlot(s.tr)
        t1 == _publish_action_status(update_status(NewTracker("a1", c, now), "FAILED", exc.msg, now),
                                     "FAILED", exc.msg)
    IN  [s EXCEPT !.tr[k] = [t1 EXCEPT !.poller = "done"],
                  !.api[ControlLoop] = IdleCall, !.hc = NoControl]

\* handle_control_command's except branch (handler.py 433-447)
handle_control_command_except(s, exc) ==
    LET c == s.hc
        s1 == publish_error_status(s, c.vehicle_id, exc, c.command_type)
    IN  [s1 EXCEPT !.api[ControlLoop] = IdleCall, !.hc = NoControl]

\* _poll_action_status ending without the cleanup of its finally block
poll_finally_keeps(s, k) ==
    [s EXCEPT !.ev.finished = [s.tr[k] EXCEPT !.poller = "done"],
              !.tr[k] = NoTracker,
              !.api[PollerTask(k)] = IdleCall]

\* _poll_action_status, finally (handler.py 533-536): the key of the polled
\* action leaves the registry, whichever record it holds; the task ends and
\* nothing refers to its tracker any more
poll_finally(s, k) ==
    [s EXCEPT !.aa[s.tr[k].action_id] = 0,
              !.ev.finished = [s.tr[k] EXCEPT !.poller = "done"],
              !.tr[k] = NoTracker,
              !.api[PollerTask(k)] = IdleCall]

\* _poll_action_status, except Exception (handler.py 528-531)
poll_except(s, k, exc) ==
    LET t1 == update_status(s.tr[k], "FAILED", exc.msg, now)
        t2 == _publish_action_status(t1, "FAILED", exc.msg)
    IN  poll_finally([s EXCEPT !.tr[k] = t2], k)

\* _poll_action_status treating a failed follow-up refresh as a failed action
poll_refresh_except_failing(s, k) == poll_except(s, k, RemoteFailure("refresh_force"))

\* _poll_action_status, the follow-up refresh failed (handler.py 523-524)
poll_refresh_except(s, k) == poll_finally(s, k)

\* _poll_action_status after the follow-up refresh returned (handler.py 522)
poll_refreshed(s, k) ==
    poll_finally(publish_vehicle_data(s, s.tr[k].vehicle_id, "refresh_force"), k)

\* An API method raises exc to the task that called it.
Raise(s, t, m, exc) ==
    LET s1 == [s EXCEPT !.ev.raised = exc.msg]
    IN  IF t = RefreshLoop THEN handle_command_except(s1, exc)
        ELSE IF t = ControlLoop THEN handle_control_command_except(s1, exc)
        ELSE IF m = "check_action_status" THEN poll_except(s1, TrackerOf(t), exc)
        ELSE poll_refresh_except(s1, TrackerOf(t))

\* Entry of an API method, up to its first suspension: the breaker's gate,
\* then the remote call is handed to a thread (n-th call of the invocation).
Invoke(s, t, m, n) ==
    LET g == can_execute(s.cb, now)
    IN  IF g.result
        THEN [s EXCEPT !.cb = g.cb,
                       !.api[t] = [RemoteCall(m, n, s.cb.state = "OPEN" \/ (n > 1 /\ s.api[t].trial))
                                     EXCEPT !.reauths = IF n > 1 THEN s.api[t].reauths ELSE 0],
                       !.ev.gate = "admitted", !.ev.gate_method = m]
        ELSE Raise([s EXCEPT !.cb = g.cb, !.ev.gate = "rejected", !.ev.gate_method = m],
                   t, m, CircuitOpenError)

\* _poll_action_status refreshing after every terminal status, not only SUCCESS
poll_checked_any_terminal(s, k, final_status) ==
    LET t1 == update_status(s.tr[k], final_status, "", now)
        t2 == _publish_action_status(t1, final_status, "")
        s1 == [s EXCEPT !.tr[k] = t2]
    IN  IF final_status \in TerminalStatuses
        THEN Invoke(s1, PollerTask(k), "refresh_force", 1)
        ELSE poll_finally(s1, k)

\* _poll_action_status after check_action_status returned final_status
\* (handler.py 512-526)
poll_checked(s, k, final_status) ==
    LET t1 == update_status(s.tr[k], final_status, "", now)
        t2 == _publish_action_status(t1, final_status, "")
        s1 == [s EXCEPT !.tr[k] = t2]
    IN  IF final_status = "SUCCESS"
        THEN Invoke(s1, PollerTask(k), "refresh_force", 1)
        ELSE poll_finally(s1, k)

\* An API method returns val to the task that called it.
Return(s, t, m, val) ==
    IF t = RefreshLoop THEN handle_command_done(s, m)
    ELSE IF t = ControlLoop THEN handle_control_command_accepted(s, val)
    ELSE IF m = "check_action_status" THEN poll_checked(s, TrackerOf(t), val)
    ELSE poll_refreshed(s, TrackerOf(t))

\* _refresh_token_safely skipping whenever a re-authentication was ever noted
EnterReauth_any_age(s, t, m, n) ==
    IF s.lrt # None
    THEN Invoke([s EXCEPT !.ev.reauth = "skip"], t, m, n + 1)
    ELSE [s EXCEPT !.lock = t, !.api[t] = [phase |-> "reauth", method |-> m, attempts |-> n,
                                           trial |-> s.api[t].trial, reauths |-> s.api[t].reauths],
                   !.ev.reauth = "start"]

\* _refresh_token_safely once the lock is held (api_client.py 109-119), and
\* after a skipped re-authentication the retry: the method calls itself.
EnterReauth(s, t, m, n) ==
    IF DebounceSkips(s.lrt, now)
    THEN Invoke([s EXCEPT !.ev.reauth = "skip"], t, m, n + 1)
    ELSE [s EXCEPT !.lock = t, !.api[t] = [phase |-> "reauth", method |-> m, attempts |-> n,
                                           trial |-> s.api[t].trial, reauths |-> s.api[t].reauths],
                   !.ev.reauth = "start"]

\* _refresh_token_safely entered without taking the lock
TokenExpired_unlocked(s, t, m, n) == EnterReauth(s, t, m, n)

\* The except branch of an API method on a credential-expired error:
\* _refresh_token_safely enters "async with self._token_refresh_lock".
\* asyncio.Lock gives the lock at once only when it is free and nobody waits.
TokenExpired(s, t, m, n) ==
    IF s.lock # 0 \/ \E u \in Tasks : s.api[u].phase = "lockwait"
    THEN [s EXCEPT !.api[t] = [phase |-> "lockwait", method |-> m, attempts |-> n,
                               trial |-> s.api[t].trial, reauths |-> s.api[t].reauths],
                   !.ev.reauth = "wait"]
    ELSE EnterReauth(s, t, m, n)

\* ---------------------------------------------------------------- actions
\* Time passes.
Tick ==
    /\ ticks < MaxTicks
    /\ \E d \in TickSteps : now' = now + d
    /\ ticks' = ticks + 1
    /\ outcome' = NoEvent(0, "none")
    /\ UNCHANGED <<state_machine, message, service, circuit_breaker, token_refresh_lock, last_refresh_time, api, command_queue,
                   control_command_queue, last_command_time, accepted_timestamp, handling_refresh, handling_control,
                   trackers, active_actions>>

\* enqueue_command putting on the queue whatever parse returned
enqueue_command_parsed_unchecked(r, n) ==
    /\ Len(command_queue) < n
    /\ command_queue' = Append(command_queue, [r.command EXCEPT !.timestamp = now])
    /\ outcome' = NoEvent(0, "none")
    /\ UNCHANGED <<state_machine, service, now, ticks, circuit_breaker, token_refresh_lock, last_refresh_time, api,
                   control_command_queue, last_command_time, accepted_timestamp, handling_refresh,
                   handling_control, trackers, active_actions>>

\* CommandHandler.enqueue_command while fewer than n commands are waiting:
\* a CommandError of parse is logged, nothing else
enqueue_command_parsed(r, n) ==
    /\ Len(command_queue) < n
    /\ command_queue' = IF r.ok THEN Append(command_queue, [r.command EXCEPT !.timestamp = now])
                        ELSE command_queue
    /\ outcome' = NoEvent(0, "none")
    /\ UNCHANGED <<state_machine, service, now, ticks, circuit_breaker, token_refresh_lock, last_refresh_time, api,
                   control_command_queue, last_command_time, accepted_timestamp, handling_refresh, handling_control,
                   trackers, active_actions>>

\* enqueue_command given the result r of RefreshCommand.parse
enqueue_command_bounded(r, n) == enqueue_command_parsed(r, n) /\ UNCHANGED message

enqueue_command(r) == enqueue_command_bounded(r, MaxQueue)

\* CommandHandler.enqueue_control_command while fewer than n commands are waiting
enqueue_control_command_parsed(r, n) ==
    /\ Len(control_command_queue) < n
    /\ control_command_queue' = IF r.ok THEN Append(control_command_queue, r.command)
                                ELSE control_command_queue
    /\ outcome' = NoEvent(0, "none")
    /\ UNCHANGED <<state_machine, service, now, ticks, circuit_breaker, token_refresh_lock, last_refresh_time, api,
                   command_queue, last_command_time, accepted_timestamp, handling_refresh, handling_control,
                   trackers, active_actions>>

\* enqueue_control_command given the result r of ControlCommand.parse
enqueue_control_command_bounded(r, n) == enqueue_control_command_parsed(r, n) /\ UNCHANGED message

enqueue_control_command(r) == enqueue_control_command_bounded(r, MaxQueue)

\* A throttle test that looks at the last command of any vehicle
Throttled_any_vehicle(c) ==
    \E v \in Fleet : /\ last_command_time[v] # None
                      /\ now - last_command_time[v] < _min_command_interval

\* The throttle test of handle_command (handler.py 292-301)
Throttled(c) ==
    /\ last_command_time[c.vehicle_id] # None
    /\ now - last_command_time[c.vehicle_id] < _min_command_interval

\* process_commands with a handle_command that notes the time of a throttled
\* command too
process_commands_noting_drops ==
    /\ api[RefreshLoop].phase = "idle"
    /\ command_queue # <<>>
    /\ LET c == Head(command_queue)
           m == RefreshMethodFor(c)
           s0 == [Cur(RefreshLoop, m) EXCEPT !.hr = c]
       IN  /\ command_queue' = Tail(command_queue)
           /\ last_command_time' = [last_command_time EXCEPT ![c.vehicle_id] = now]
           /\ IF Throttled(c)
              THEN /\ UNCHANGED accepted_timestamp
                   /\ Commit([Cur(RefreshLoop, m) EXCEPT !.ev.dropped = "throttled"])
              ELSE /\ accepted_timestamp' = [accepted_timestamp EXCEPT ![c.vehicle_id] = c.timestamp]
                   /\ IF m = "none"
                      THEN Commit(handle_command_except(s0,
                                    [type |-> "CommandError", msg |-> "Unknown command type"]))
                      ELSE Commit(Invoke(s0, RefreshLoop, m, 1))
    /\ UNCHANGED <<state_machine, message, service, now, ticks, control_command_queue>>

\* process_commands with a handle_command that leaves the ledger alone when
\* it accepts a command
process_commands_without_ledger ==
    /\ api[RefreshLoop].phase = "idle"
    /\ command_queue # <<>>
    /\ LET c == Head(command_queue)
           m == RefreshMethodFor(c)
           s0 == [Cur(RefreshLoop, m) EXCEPT !.hr = c]
       IN  /\ command_queue' = Tail(command_queue)
           /\ UNCHANGED last_command_time
           /\ IF Throttled(c)
              THEN /\ UNCHANGED accepted_timestamp
                   /\ Commit([Cur(RefreshLoop, m) EXCEPT !.ev.dropped = "throttled"])
              ELSE /\ accepted_timestamp' = [accepted_timestamp EXCEPT ![c.vehicle_id] = c.timestamp]
                   /\ IF m = "none"
                      THEN Commit(handle_command_except(s0,
                                    [type |-> "CommandError", msg |-> "Unknown command type"]))
                      ELSE Commit(Invoke(s0, RefreshLoop, m, 1))
    /\ UNCHANGED <<state_machine, message, service, now, ticks, control_command_queue>>

\* process_commands takes the next refresh command and runs handle_command
\* up to the remote call of the refresh method.
process_commands ==
    /\ api[RefreshLoop].phase = "idle"
    /\ command_queue # <<>>
    /\ LET c == Head(command_queue)
           m == RefreshMethodFor(c)
           s0 == [Cur(RefreshLoop, m) EXCEPT !.hr = c]
       IN  /\ command_queue' = Tail(command_queue)
           /\ IF Throttled(c)
              THEN /\ UNCHANGED <<last_command_time, accepted_timestamp>>
                   /\ Commit([Cur(RefreshLoop, m) EXCEPT !.ev.dropped = "throttled"])
              ELSE /\ last_command_time' = [last_command_time EXCEPT ![c.vehicle_id] = now]
                   /\ accepted_timestamp' = [accepted_timestamp EXCEPT ![c.vehicle_id] = c.timestamp]
                   /\ IF m = "none"
                      THEN Commit(handle_command_except(s0,
                                    [type |-> "CommandError", msg |-> "Unknown command type"]))
                      ELSE Commit(Invoke(s0, RefreshLoop, m, 1))
    /\ UNCHANGED <<state_machine, message, service, now, ticks, control_command_queue>>

\* process_control_commands taking the newest command of its queue
process_control_commands_newest_first ==
    /\ api[ControlLoop].phase = "idle"
    /\ control_command_queue # <<>>
    /\ LET c == control_command_queue[Len(control_command_queue)]
           x == _execute_command(c)
           s0 == [Cur(ControlLoop, x.method) EXCEPT !.hc = c]
       IN  /\ control_command_queue' = SubSeq(control_command_queue, 1, Len(control_command_queue) - 1)
           /\ IF x.ok
              THEN Commit(Invoke(s0, ControlLoop, x.method, 1))
              ELSE Commit(handle_control_command_except([s0 EXCEPT !.ev.dropped = "invalid"], x.exc))
    /\ UNCHANGED <<state_machine, message, service, now, ticks, command_queue, last_command_time, accepted_timestamp>>

\* process_control_commands takes the next control command and runs
\* handle_control_command up to the remote call of the control method.
process_control_commands ==
    /\ api[ControlLoop].phase = "idle"
    /\ control_command_queue # <<>>
    /\ LET c == Head(control_command_queue)
           x == _execute_command(c)
           s0 == [Cur(ControlLoop, x.method) EXCEPT !.hc = c]
       IN  /\ control_command_queue' = Tail(control_command_queue)
           /\ IF x.ok
              THEN Commit(Invoke(s0, ControlLoop, x.method, 1))
              ELSE Commit(handle_control_command_except([s0 EXCEPT !.ev.dropped = "invalid"], x.exc))
    /\ UNCHANGED <<state_machine, message, service, now, ticks, command_queue, last_command_time, accepted_timestamp>>

\* The task of _poll_action_status(tracker) starts: check_action_status is called.
_poll_action_status(k) ==
    /\ trackers[k].poller = "spawned"
    /\ Commit(Invoke([Cur(PollerTask(k), "check_action_status") EXCEPT !.tr[k].poller = "running"],
                     PollerTask(k), "check_action_status", 1))
    /\ UNCHANGED <<state_machine, message, service, now, ticks, command_queue, control_command_queue, last_command_time, accepted_timestamp>>

\* The remote call of task t returns normally.  A control call returns its
\* action_id only while fewer than n pollers are alive.
RemoteSucceeds_bounded(t, n) ==
    /\ api[t].phase = "remote"
    /\ LET m == api[t].method
           s0 == [Cur(t, m) EXCEPT !.ev.call = "ok", !.ev.attempts = api[t].attempts,
                                   !.ev.reauths = api[t].reauths]
           s1 == IF RecordsSuccess(m)
                 THEN [s0 EXCEPT !.cb = record_success(@), !.ev.recorded = "success"]
                 ELSE s0
       IN  \/ /\ m \in RefreshMethods
              /\ Commit(Return(s1, t, m, ""))
           \/ /\ m \in ControlMethods
              /\ Cardinality({k \in 1..MaxPollers : trackers[k] # NoTracker}) < n
              /\ \E id \in ActionIds : Commit(Return(s1, t, m, id))
           \/ /\ m = "check_action_status"
              /\ \E r \in StatusResponses :
                    /\ ~ParseRaises(r)
                    /\ Commit(Return(s1, t, m, _parse_action_status(r)))
    /\ UNCHANGED <<state_machine, message, service, now, ticks, command_queue, control_command_queue, last_command_time, accepted_timestamp>>

RemoteSucceeds(t) == RemoteSucceeds_bounded(t, MaxActions)

\* As RemoteFails, with a breaker of their own for the action-status checks:
\* their failures are not counted by the breaker of the other capabilities.
RemoteFails_separate_status(t) ==
    /\ api[t].phase = "remote"
    /\ circuit_breaker.failure_count < MaxFailures
    /\ LET m == api[t].method
           s1 == [Cur(t, m) EXCEPT !.cb = IF m = "check_action_status" THEN @
                                         ELSE record_failure(@, now),
                                   !.ev.call = "fail", !.ev.recorded = "failure",
                                   !.ev.attempts = api[t].attempts,
                                   !.ev.reauths = api[t].reauths]
       IN  Commit(Raise(s1, t, m, RemoteFailure(m)))
    /\ UNCHANGED <<state_machine, message, service, now, ticks, command_queue, control_command_queue, last_command_time, accepted_timestamp>>

\* The remote call of task t fails with an error that is not a credential
\* error (also: the vehicle is not found, the status cannot be parsed).
RemoteFails(t) ==
    /\ api[t].phase = "remote"
    /\ circuit_breaker.failure_count < MaxFailures
    /\ LET m == api[t].method
           s1 == [Cur(t, m) EXCEPT !.cb = record_failure(@, now),
                                   !.ev.call = "fail", !.ev.recorded = "failure",
                                   !.ev.attempts = api[t].attempts,
                                   !.ev.reauths = api[t].reauths]
       IN  Commit(Raise(s1, t, m, RemoteFailure(m)))
    /\ UNCHANGED <<state_machine, message, service, now, ticks, command_queue, control_command_queue, last_command_time, accepted_timestamp>>

\* The remote call of task t fails with a credential-expired error.
RemoteTokenExpired(t) ==
    /\ api[t].phase = "remote"
    /\ api[t].attempts < MaxAttempts
    /\ Commit(TokenExpired([Cur(t, api[t].method) EXCEPT !.ev.call = "token"],
                           t, api[t].method, api[t].attempts))
    /\ UNCHANGED <<state_machine, message, service, now, ticks, command_queue, control_command_queue, last_command_time, accepted_timestamp>>

\* Task t, waiting for _token_refresh_lock, gets it.
LockAcquired(t) ==
    /\ api[t].phase = "lockwait"
    /\ token_refresh_lock = 0
    /\ Commit(EnterReauth(Cur(t, api[t].method), t, api[t].method, api[t].attempts))
    /\ UNCHANGED <<state_machine, message, service, now, ticks, command_queue, control_command_queue, last_command_time, accepted_timestamp>>

\* check_and_refresh_token returns: the time is noted, the lock released,
\* and the API method calls itself again.
ReauthSucceeds(t) ==
    /\ api[t].phase = "reauth"
    /\ LET s1 == [Cur(t, api[t].method) EXCEPT !.lrt = now, !.lock = 0, !.ev.reauth = "ok",
                                                !.api[t].reauths = @ + 1]
       IN  Commit(Invoke(s1, t, api[t].method, api[t].attempts + 1))
    /\ UNCHANGED <<state_machine, message, service, now, ticks, command_queue, control_command_queue, last_command_time, accepted_timestamp>>

\* check_and_refresh_token raises: the lock is released and the exception
\* leaves the API method as it is.
ReauthFails(t) ==
    /\ api[t].phase = "reauth"
    /\ LET s1 == [Cur(t, api[t].method) EXCEPT !.lock = 0, !.ev.reauth = "fail"]
       IN  Commit(Raise(s1, t, api[t].method, ReauthFailure))
    /\ UNCHANGED <<state_machine, message, service, now, ticks, command_queue, control_command_queue, last_command_time, accepted_timestamp>>

Next ==
    \/ Tick
    \/ \E r \in RefreshParses : enqueue_command(r)
    \/ \E r \in ControlParses : enqueue_control_command(r)
    \/ process_commands
    \/ process_control_commands
    \/ \E k \in 1..MaxActions : _poll_action_status(k)
    \/ \E t \in Tasks : RemoteSucceeds(t)
    \/ \E t \in Tasks : RemoteFails(t)
    \/ \E t \in Tasks : RemoteTokenExpired(t)
    \/ \E t \in Tasks : LockAcquired(t)
    \/ \E t \in Tasks : ReauthSucceeds(t)
    \/ \E t \in Tasks : ReauthFails(t)

Spec == Init /\ [][Next]_vars

\* ------------------------------------------------------- the two loops
\* run() cancels the task of a consumer loop (main.py 138-149): CancelledError
\* is thrown at the await the task is suspended in, passes the except
\* Exception clauses of the API method and of the handler, and is raised
\* again by the loop (handler.py 373-375, 625-627).  It leaves "async with
\* _token_refresh_lock", which releases the lock the task holds.
Cancel(t) ==
    /\ t \in {RefreshLoop, ControlLoop}
    /\ api[t].phase # "cancelled"
    /\ api' = [api EXCEPT ![t] = [IdleCall EXCEPT !.phase = "cancelled"]]
    /\ token_refresh_lock' = IF token_refresh_lock = t THEN 0 ELSE token_refresh_lock
    /\ handling_refresh' = IF t = RefreshLoop THEN NoRefresh ELSE handling_refresh
    /\ handling_control' = IF t = ControlLoop THEN NoControl ELSE handling_control
    /\ outcome' = [NoEvent(t, "none") EXCEPT !.raised = "CancelledError"]
    /\ UNCHANGED <<state_machine, message, service, now, ticks, circuit_breaker, last_refresh_time, command_queue,
                   control_command_queue, last_command_time, accepted_timestamp,
                   trackers, active_actions>>

\* The two consumer loops until they are cancelled; the remote calls succeed
\* or fail, the credentials do not expire and no poller runs.
NextLoops ==
    \/ Tick
    \/ \E r \in RefreshParses : enqueue_command(r)
    \/ \E r \in ControlParses : enqueue_control_command(r)
    \/ process_commands
    \/ process_control_commands
    \/ \E t \in {RefreshLoop, ControlLoop} : RemoteSucceeds(t)
    \/ \E t \in {RefreshLoop, ControlLoop} : RemoteFails(t)
    \/ \E t \in {RefreshLoop, ControlLoop} : Cancel(t)

SpecLoops == Init /\ [][NextLoops]_vars

\* ------------------------------------------------- the order of the queues
\* The two consumer loops with up to MaxFifo commands waiting in each queue,
\* within one instant of the clock; the remote calls succeed or fail and no
\* poller runs.
NextFifo ==
    \/ \E r \in FleetRefreshParses : enqueue_command_bounded(r, MaxFifo)
    \/ \E r \in ControlParses : enqueue_control_command_bounded(r, MaxFifo)
    \/ process_commands
    \/ process_control_commands
    \/ \E t \in {RefreshLoop, ControlLoop} : RemoteSucceeds(t)
    \/ \E t \in {RefreshLoop, ControlLoop} : RemoteFails(t)

SpecFifo == Init /\ [][NextFifo]_vars

\* ------------------------------------------------------- the control side
\* Control commands and their pollers, without refresh commands.
ControlSteps ==
    \/ \E r \in ControlParses : enqueue_control_command(r)
    \/ process_control_commands
    \/ \E k \in 1..MaxActions : _poll_action_status(k)
    \/ \E t \in Tasks : RemoteSucceeds(t)
    \/ \E t \in Tasks : RemoteFails(t)
    \/ \E t \in Tasks : RemoteTokenExpired(t)
    \/ \E t \in Tasks : LockAcquired(t)
    \/ \E t \in Tasks : ReauthSucceeds(t)
    \/ \E t \in Tasks : ReauthFails(t)

NextControl == Tick \/ ControlSteps

SpecControl == Init /\ [][NextControl]_vars

\* ------------------------------------------------------- the refresh side
\* Time passes, in steps around the debounce window.
TickDebounce ==
    /\ ticks < MaxTicks
    /\ \E d \in DebounceSteps : now' = now + d
    /\ ticks' = ticks + 1
    /\ outcome' = NoEvent(0, "none")
    /\ UNCHANGED <<state_machine, message, service, circuit_breaker, token_refresh_lock, last_refresh_time, api, command_queue,
                   control_command_queue, last_command_time, accepted_timestamp,
                   handling_refresh, handling_control, trackers, active_actions>>

\* Refresh commands and the refresh loop, which is the only task: it never
\* has to wait for the re-authentication lock.
NextRefresh ==
    \/ TickDebounce
    \/ \E r \in RefreshParses : enqueue_command(r)
    \/ process_commands
    \/ RemoteSucceeds(RefreshLoop)
    \/ RemoteFails(RefreshLoop)
    \/ RemoteTokenExpired(RefreshLoop)
    \/ ReauthSucceeds(RefreshLoop)
    \/ ReauthFails(RefreshLoop)

SpecRefresh == Init /\ [][NextRefresh]_vars

\* The steps of task t.
TaskStep(t) ==
    \/ t = RefreshLoop /\ process_commands
    \/ t = ControlLoop /\ process_control_commands
    \/ t >= FirstPoller /\ _poll_action_status(TrackerOf(t))
    \/ RemoteSucceeds(t)
    \/ RemoteFails(t)
    \/ RemoteTokenExpired(t)
    \/ LockAcquired(t)
    \/ ReauthSucceeds(t)
    \/ ReauthFails(t)

\* The life of control actions within one instant of the clock: lock
\* commands arrive, are dispatched and polled.
LockParses ==
    {r \in ControlParses : r.ok /\ _execute_command(r.command).method = "lock_vehicle"}

LifecycleSteps ==
    \/ \E r \in LockParses : enqueue_control_command(r)
    \/ process_control_commands
    \/ \E k \in 1..MaxActions : _poll_action_status(k)
    \/ \E t \in Tasks : RemoteSucceeds(t)
    \/ \E t \in Tasks : RemoteFails(t)
    \/ \E t \in Tasks : RemoteTokenExpired(t)
    \/ \E t \in Tasks : LockAcquired(t)
    \/ \E t \in Tasks : ReauthSucceeds(t)
    \/ \E t \in Tasks : ReauthFails(t)

\* The scheduling the event loop gives: every task that is ready runs, a
\* call handed to a thread comes back (the remote library gives up after its
\* timeout), and asyncio.Lock wakes its waiters in the order of their arrival.
FairLifecycle ==
    /\ Init /\ [][LifecycleSteps]_vars
    /\ \A t \in Tasks \ {RefreshLoop} : WF_vars(TaskStep(t)) /\ SF_vars(LockAcquired(t))

\* ------------------------------------------------------------ the pollers
\* Lock commands, the control loop and up to MaxPollers pollers alive at the
\* same time, within one instant of the clock; the remote calls succeed or
\* fail and the credentials do not expire.
NextPollers ==
    \/ \E r \in LockParses : enqueue_control_command(r)
    \/ process_control_commands
    \/ \E k \in 1..MaxPollers : _poll_action_status(k)
    \/ \E t \in Tasks \ {RefreshLoop} : RemoteSucceeds_bounded(t, MaxPollers)
    \/ \E t \in Tasks \ {RefreshLoop} : RemoteFails(t)

SpecPollers == Init /\ [][NextPollers]_vars

\* ----------------------------------------------------------- the throttle
\* Time passes, in steps around the minimum command interval.
TickFine ==
    /\ ticks < MaxFineTicks
    /\ \E d \in FineSteps : now' = now + d
    /\ ticks' = ticks + 1
    /\ outcome' = NoEvent(0, "none")
    /\ UNCHANGED <<state_machine, message, service, circuit_breaker, token_refresh_lock, last_refresh_time, api, command_queue,
                   control_command_queue, last_command_time, accepted_timestamp,
                   handling_refresh, handling_control, trackers, active_actions>>

\* The two consumer loops with the refresh commands of the whole fleet and
\* lock commands; the remote calls succeed and no poller runs.
NextThrottle ==
    \/ TickFine
    \/ \E r \in FleetRefreshParses : enqueue_command(r)
    \/ \E r \in LockParses : enqueue_control_command(r)
    \/ process_commands
    \/ process_control_commands
    \/ \E t \in {RefreshLoop, ControlLoop} : RemoteSucceeds(t)

SpecThrottle == Init /\ [][NextThrottle]_vars

\* --------------------------------------------- ActionTracker on its own
\* Records as handle_control_command builds them, and update_status called
\* on them with any status in any order.
TrackerStatuses == {"PENDING"} \cup TerminalStatuses

InitTracker ==
    /\ state_machine = EUActionStateMachine
    /\ message = NoMessage
    /\ service = "running"
    /\ now = 0
    /\ ticks = 0
    /\ circuit_breaker = CircuitBreaker
    /\ token_refresh_lock = 0
    /\ last_refresh_time = None
    /\ api = [t \in Tasks |-> IdleCall]
    /\ command_queue = <<>>
    /\ control_command_queue = <<>>
    /\ last_command_time = [v \in Fleet |-> None]
    /\ accepted_timestamp = [v \in Fleet |-> None]
    /\ handling_refresh = NoRefresh
    /\ handling_control = NoControl
    /\ \E f \in [1..MaxActions ->
                        {NewTracker(a, r.command, 0) :
                            a \in ActionIds,
                            r \in {x \in ControlParses : x.ok /\ _execute_command(x.command).ok}}] :
          trackers = [k \in 1..MaxPollers |-> IF k <= MaxActions THEN f[k] ELSE NoTracker]
    /\ active_actions = [a \in ActionIds |-> 0]
    /\ outcome = NoEvent(0, "none")

UpdateStatusCall(k, status, error) ==
    /\ Len(trackers[k].status_history) < MaxHistory
    /\ trackers' = [trackers EXCEPT ![k] = update_status(@, status, error, now)]
    /\ UNCHANGED <<state_machine, message, service, now, ticks, circuit_breaker, token_refresh_lock, last_refresh_time, api,
                   command_queue, control_command_queue, last_command_time, accepted_timestamp, handling_refresh,
                   handling_control, active_actions, outcome>>

NextTracker ==
    \/ Tick
    \/ \E k \in 1..MaxActions, status \in TrackerStatuses, error \in {"", "boom"} :
            UpdateStatusCall(k, status, error)

SpecTracker == InitTracker /\ [][NextTracker]_vars

\* =================================================================== claims

\* C1: once the status of a record is SUCCESS, FAILED, TIMEOUT or UNKNOWN,
\* no step changes it: a further transition of the record is rejected.
C1_TerminalStatusIsFinal ==
    [][\A k \in 1..MaxActions :
          (trackers[k].last_status \in TerminalStatuses /\ trackers'[k] # NoTracker)
          => trackers'[k].last_status = trackers[k].last_status]_vars

\* C2: for every accepted control command the publications of its action
\* are a PENDING status first (made before the poller starts) and after it
\* exactly one terminal status, all made by the time the poller has removed
\* the record and ended.
C2_OneTerminalPublication ==
    outcome.finished # NoTracker =>
        LET p == outcome.finished.published
        IN  /\ Len(p) >= 2
            /\ p[1].status = "PENDING"
            /\ Cardinality({i \in DOMAIN p : p[i].status \in TerminalStatuses}) = 1

\* C3: every record inserted in the active registry is eventually removed
\* from it, whatever the outcome of the status check, of the publications
\* and of the follow-up refresh.
C3_RegisteredIsRemoved ==
    \A a \in ActionIds : (active_actions[a] # 0) ~> (active_actions[a] = 0)

\* the follow-up refresh of an action has just failed and the poller has
\* ended with the record out of the registry
C3_Witness ==
    /\ outcome.finished # NoTracker
    /\ outcome.finished.last_status = "SUCCESS"
    /\ outcome.method = "refresh_force"
    /\ outcome.raised # ""
    /\ active_actions[outcome.finished.action_id] = 0

\* C4 as stated: every record in the active registry has status PENDING.
C4_RegistryAllPending ==
    \A a \in ActionIds :
        active_actions[a] # 0 => trackers[active_actions[a]].last_status = "PENDING"

\* C4, amended: every record in the active registry has status PENDING, or
\* has status SUCCESS while its poller is inside the follow-up refresh; a
\* FAILED, TIMEOUT or UNKNOWN record is never in the registry.
C4_RegistryPendingOrRefreshing ==
    \A a \in ActionIds :
        active_actions[a] # 0 =>
            LET k == active_actions[a]
            IN  \/ trackers[k].last_status = "PENDING"
                \/ /\ trackers[k].last_status = "SUCCESS"
                   /\ api[PollerTask(k)].method = "refresh_force"
                   /\ api[PollerTask(k)].phase # "idle"

\* a SUCCESS record is in the registry while its poller waits for the
\* follow-up refresh
C4_Witness ==
    \E a \in ActionIds :
        /\ active_actions[a] # 0
        /\ trackers[active_actions[a]].last_status = "SUCCESS"
        /\ trackers[active_actions[a]].completed_at # None
        /\ api[PollerTask(active_actions[a])].phase = "remote"

\* C5: while the breaker is HALF_OPEN and the trial call is still in flight
\* (it has recorded no outcome yet), no call of another task is admitted.
C5_SingleTrial ==
    [][\A t \in Tasks :
          (/\ circuit_breaker.state = "HALF_OPEN"
           /\ api[t].phase = "remote" /\ api[t].trial
           /\ api'[t] = api[t])
          => ~(outcome'.gate = "admitted" /\ outcome'.task # t)]_vars

\* C6: one invocation of an API method issues the remote call at most twice
\* (the first attempt and one retry after a credential-expired failure).
C6_AtMostTwoCalls == \A t \in Tasks : api[t].attempts <= 2

\* C7: counting from CLOSED with failure_count 0, the breaker opens exactly
\* at the fifth consecutive recorded failure: failure_count moves only by
\* +1 on a recorded failure and to 0 on a recorded success, a CLOSED breaker
\* has counted fewer than five, and a recorded failure leaves a CLOSED
\* breaker CLOSED below five and OPEN at five; nothing else opens it.
C7_Step ==
    LET cb == circuit_breaker
        cb2 == circuit_breaker'
    IN  /\ cb.state = "CLOSED" => cb.failure_count < failure_threshold
        /\ cb2.failure_count # cb.failure_count =>
              \/ outcome'.recorded = "failure" /\ cb2.failure_count = cb.failure_count + 1
              \/ outcome'.recorded = "success" /\ cb2.failure_count = 0
        /\ (cb.state = "CLOSED" /\ outcome'.recorded = "failure") =>
              /\ cb2.failure_count = cb.failure_count + 1
              /\ cb2.state = IF cb2.failure_count = failure_threshold THEN "OPEN" ELSE "CLOSED"
        /\ (cb.state = "CLOSED" /\ cb2.state # "CLOSED") => outcome'.recorded = "failure"
C7_OpensAtFifthFailure == [][C7_Step]_vars

\* the fifth consecutive failure has just been recorded and opened the breaker
C7_Witness ==
    /\ outcome.recorded = "failure"
    /\ circuit_breaker.state = "OPEN"
    /\ circuit_breaker.failure_count = failure_threshold

\* C8: when can_execute() answers false, the API method raises "Circuit
\* breaker is open", no remote call is made for it, and the breaker's state,
\* failure_count and last_failure_time are what they were.
C8_RejectionTouchesNothing ==
    [][outcome'.gate = "rejected" =>
          /\ circuit_breaker' = circuit_breaker
          /\ outcome'.raised = CircuitOpenError.msg
          /\ outcome'.recorded = "none"
          /\ api'[outcome'.task].phase = "idle"]_vars

\* a call has just been rejected by the OPEN breaker
C8_Witness ==
    /\ outcome.gate = "rejected"
    /\ outcome.raised = "Circuit breaker is open"
    /\ circuit_breaker.state = "OPEN"

\* C9: when an admitted remote call has completed successfully (a refresh,
\* a control command or an action-status check), the breaker is CLOSED with
\* failure_count 0.
C9_SuccessCloses ==
    outcome.call = "ok" =>
        circuit_breaker.state = "CLOSED" /\ circuit_breaker.failure_count = 0

\* C10: when the invocation of the trial call fails while the breaker is
\* HALF_OPEN, whatever the failure, the breaker is OPEN when the exception
\* reaches the caller.
C10_TrialFailureReopens ==
    [][\A t \in Tasks :
          (/\ circuit_breaker.state = "HALF_OPEN"
           /\ api[t].trial
           /\ outcome'.task = t
           /\ outcome'.raised # "")
          => circuit_breaker'.state = "OPEN"]_vars

\* C11: the breaker's state changes only from CLOSED to OPEN, from OPEN to
\* HALF_OPEN, from HALF_OPEN to CLOSED and from HALF_OPEN to OPEN.
C11_BreakerTransitions ==
    [][circuit_breaker'.state # circuit_breaker.state =>
          <<circuit_breaker.state, circuit_breaker'.state>> \in
              {<<"CLOSED", "OPEN">>, <<"OPEN", "HALF_OPEN">>,
               <<"HALF_OPEN", "CLOSED">>, <<"HALF_OPEN", "OPEN">>}]_vars

\* C12: at most one re-authentication is in progress at any time, and it is
\* the lock holder's; last_refresh_time is written only by the lock holder
\* when its re-authentication returns; a task that enters the lock less
\* than 30 s after a completed re-authentication starts none.
C12_Step ==
    LET InReauth(a) == {t \in Tasks : a[t].phase = "reauth"}
    IN  /\ Cardinality(InReauth(api)) <= 1
        /\ \A t \in InReauth(api) : token_refresh_lock = t
        /\ last_refresh_time' # last_refresh_time =>
              /\ outcome'.reauth = "ok"
              /\ token_refresh_lock = outcome'.task
              /\ last_refresh_time' = now
        /\ (last_refresh_time # None /\ now - last_refresh_time < TokenDebounce) =>
              /\ outcome'.reauth # "start"
              /\ InReauth(api') \subseteq InReauth(api)
C12_OneReauthAtATime == [][C12_Step]_vars

\* two tasks hit a credential error together: one re-authenticated, and the
\* other, given the lock afterwards, has just skipped its re-authentication
C12_Witness ==
    /\ outcome.reauth = "skip"
    /\ outcome.call = "none"
    /\ last_refresh_time = now
    /\ api[outcome.task].phase = "remote"
    /\ api[outcome.task].attempts = 2

\* C13: a remote call that fails once with a credential-expired error and
\* succeeds on its second attempt has had exactly one re-authentication
\* performed by its invocation between the two attempts.
C13_ExactlyOneReauth ==
    (outcome.call = "ok" /\ outcome.attempts = 2) => outcome.reauths = 1

\* C13 (amended): the invocation whose second attempt succeeds has performed
\* at most one re-authentication, its success is recorded on the breaker
\* (check_action_status records nothing) and no remote-service error is
\* surfaced; the second attempt is issued either by the step that completes
\* the invocation's one re-authentication, or without any re-authentication
\* by the step that finds the previous one less than TokenDebounce seconds old.
C13_Step ==
    /\ (outcome'.call = "ok" /\ outcome'.attempts = 2) =>
          /\ outcome'.reauths \in {0, 1}
          /\ RecordsSuccess(outcome'.method) => outcome'.recorded = "success"
          /\ outcome'.raised # "" => outcome'.gate = "rejected"
    /\ \A t \in Tasks :
          (api[t].attempts = 1 /\ api'[t].attempts = 2) =>
             \/ /\ outcome'.reauth = "ok"
                /\ api[t].phase = "reauth"
                /\ api'[t].reauths = 1
             \/ /\ outcome'.reauth = "skip"
                /\ api'[t].reauths = 0
                /\ DebounceSkips(last_refresh_time, now)
C13_RetryAfterReauth == [][C13_Step]_vars

\* C13 witness: a second attempt that followed one re-authentication succeeded.
C13_Witness ==
    outcome.call = "ok" /\ outcome.attempts = 2 /\ outcome.reauths = 1 /\ outcome.raised = ""

\* C14: inside the lock, the re-authentication is skipped if and only if a
\* previous re-authentication completed less than TokenDebounce seconds
\* earlier; after any longer time, however long, it is performed.
C14_SkipIffRecent ==
    [][outcome'.reauth \in {"skip", "start"} =>
          (outcome'.reauth = "skip" <=>
              (last_refresh_time # None /\ now - last_refresh_time < TokenDebounce))]_vars

\* C15: every failure an API method surfaces after its remote call was
\* attempted (the call failed with a non-credential error, or the credential
\* recovery failed) is surfaced as the method's remote-service error and is
\* counted against the breaker by one record_failure().
C15_SurfacedFailureCounted ==
    (outcome.call = "fail" \/ outcome.reauth = "fail") =>
        /\ outcome.recorded = "failure"
        /\ outcome.raised = RemoteFailure(outcome.method).msg

\* C16: a refresh command that arrives less than _min_command_interval after
\* the last accepted refresh of its vehicle is never put into the refresh queue.
C16_ThrottledNeverQueued ==
    [][Len(command_queue') > Len(command_queue) =>
          ~Throttled(command_queue'[Len(command_queue')])]_vars

\* C17: a refresh command is dropped by the throttle if and only if it was
\* issued less than _min_command_interval after the last accepted refresh
\* command of the same vehicle was issued, whatever the queueing delay and the
\* duration of that command's execution: of two commands issued less than 5
\* seconds apart one is accepted and one dropped, 5 seconds or more apart both
\* are accepted.
C17_IssueSpacingDecides ==
    [][(command_queue # <<>> /\ command_queue' = Tail(command_queue)) =>
          LET c == Head(command_queue)
              last == accepted_timestamp[c.vehicle_id]
          IN  outcome'.dropped = "throttled" <=>
                 (last # None /\ c.timestamp - last < _min_command_interval)]_vars

\* C18: the throttle ledger entry of a vehicle changes only in the step in
\* which handle_command accepts a refresh command of that vehicle (it passes
\* the throttle test), and becomes the time of that step; the step that drops
\* a throttled refresh leaves the whole ledger unchanged.
C18_Step ==
    /\ \A v \in Fleet :
          last_command_time'[v] # last_command_time[v] =>
             /\ command_queue # <<>>
             /\ command_queue' = Tail(command_queue)
             /\ Head(command_queue).vehicle_id = v
             /\ ~Throttled(Head(command_queue))
             /\ outcome'.task = RefreshLoop
             /\ outcome'.dropped = ""
             /\ last_command_time'[v] = now
    /\ outcome'.dropped = "throttled" => last_command_time' = last_command_time
C18_LedgerOnlyOnAccept == [][C18_Step]_vars

\* C18 witness: a refresh was dropped by the throttle some time after the
\* accepted one, and the ledger still holds the time of the accepted one.
C18_Witness ==
    /\ outcome.dropped = "throttled"
    /\ last_command_time["VIN1"] = 0
    /\ last_command_time["VIN2"] = None
    /\ now = 4

\* C19: the throttle is per vehicle and only for refresh commands: the step
\* that takes a control command out of its queue never drops it as throttled
\* and hands it to the API method or rejects it as invalid whatever the ledger
\* holds, no step of the control loop changes the ledger, and a refresh
\* command is throttled exactly when the ledger entry of its own vehicle is
\* less than _min_command_interval old, whatever the other entries are.
C19_Step ==
    /\ (control_command_queue # <<>> /\ control_command_queue' = Tail(control_command_queue)) =>
          /\ outcome'.dropped # "throttled"
          /\ outcome'.gate # "none" \/ outcome'.dropped = "invalid"
    /\ outcome'.task = ControlLoop => last_command_time' = last_command_time
    /\ (command_queue # <<>> /\ command_queue' = Tail(command_queue)) =>
          LET v == Head(command_queue).vehicle_id
          IN  outcome'.dropped = "throttled" <=>
                 /\ last_command_time[v] # None
                 /\ now - last_command_time[v] < _min_command_interval
C19_ThrottlePerVehicleRefreshOnly == [][C19_Step]_vars

\* C19 witness: refreshes of both vehicles were accepted at the same time, and
\* a control command of VIN1 was then handed to the API at that very time.
C19_Witness ==
    /\ last_command_time["VIN1"] = now
    /\ last_command_time["VIN2"] = now
    /\ outcome.task = ControlLoop
    /\ outcome.gate = "admitted"
    /\ handling_control.vehicle_id = "VIN1"

\* C20: a consumer loop ends only in the step that cancels it, which raises
\* CancelledError out of the loop; a step of a loop that drops a command or
\* in which its handling fails (the breaker rejects the call, the remote call
\* fails, the command is invalid) leaves the loop waiting at its queue, where
\* it takes the next queued command.
C20_Step ==
    \A t \in {RefreshLoop, ControlLoop} :
       /\ (api'[t].phase = "cancelled" /\ api[t].phase # "cancelled") =>
             /\ outcome'.task = t
             /\ outcome'.raised = "CancelledError"
       /\ (outcome'.task = t /\ outcome'.raised # "CancelledError"
             /\ (outcome'.raised # "" \/ outcome'.dropped # "")) =>
             api'[t] = IdleCall
C20_LoopsEndOnlyByCancel == [][C20_Step]_vars

\* C20 witness: the remote call of the refresh loop has failed while the next
\* refresh command is queued, and the loop is back at its queue.
C20_Witness ==
    /\ outcome.task = RefreshLoop
    /\ outcome.call = "fail"
    /\ outcome.raised \notin {"", "CancelledError"}
    /\ api[RefreshLoop] = IdleCall
    /\ command_queue # <<>>

\* C21: each queue is first-in first-out and has one consumer that handles one
\* command at a time: a queue changes only by a command added at its end or
\* by its oldest command taken out, the command taken out is the one the
\* loop then handles, and it is taken out only when the loop is not handling
\* a command (the handler of the previous one has returned).
C21_Step ==
    /\ command_queue' # command_queue =>
          \/ \E c \in {r.command : r \in FleetRefreshParses} :
                command_queue' = Append(command_queue, [c EXCEPT !.timestamp = now])
          \/ /\ command_queue # <<>>
             /\ command_queue' = Tail(command_queue)
             /\ api[RefreshLoop] = IdleCall /\ handling_refresh = NoRefresh
             /\ outcome'.task = RefreshLoop
             /\ handling_refresh' \in {Head(command_queue), NoRefresh}
             /\ api'[RefreshLoop].phase = "remote" => handling_refresh' = Head(command_queue)
    /\ control_command_queue' # control_command_queue =>
          \/ \E c \in {r.command : r \in ControlParses} :
                control_command_queue' = Append(control_command_queue, c)
          \/ /\ control_command_queue # <<>>
             /\ control_command_queue' = Tail(control_command_queue)
             /\ api[ControlLoop] = IdleCall /\ handling_control = NoControl
             /\ outcome'.task = ControlLoop
             /\ handling_control' \in {Head(control_command_queue), NoControl}
             /\ api'[ControlLoop].phase = "remote" => handling_control' = Head(control_command_queue)
    /\ (handling_refresh' # handling_refresh /\ handling_refresh' # NoRefresh) =>
          command_queue # <<>> /\ handling_refresh' = Head(command_queue)
    /\ (handling_control' # handling_control /\ handling_control' # NoControl) =>
          control_command_queue # <<>> /\ handling_control' = Head(control_command_queue)
C21_QueuesInOrder == [][C21_Step]_vars

\* C21 witness: the control loop handles the lock command that arrived first
\* while the climate command that arrived after it waits.
C21_Witness ==
    /\ api[ControlLoop].phase = "remote"
    /\ handling_control.command_type = "lock"
    /\ Len(control_command_queue) = 1
    /\ control_command_queue[1].command_type = "climate"
    /\ Len(command_queue) = 2
    /\ command_queue[1].command_type # command_queue[2].command_type

\* C22: the control loop does not wait for a poller: the step that registers
\* an action publishes PENDING, spawns the poller and leaves the loop waiting
\* at its queue, and whenever the loop waits there with a command queued it
\* can take it, whatever actions are pending.
C22_Step ==
    /\ \A k \in 1..MaxPollers :
          (trackers[k] = NoTracker /\ trackers'[k] # NoTracker) =>
             /\ outcome'.task = ControlLoop
             /\ api'[ControlLoop] = IdleCall
             /\ handling_control' = NoControl
             /\ trackers'[k].last_status = "PENDING"
             /\ trackers'[k].poller = "spawned"
             /\ Len(trackers'[k].published) = 1
             /\ trackers'[k].published[1].status = "PENDING"
             /\ active_actions'[trackers'[k].action_id] = k
    /\ (api[ControlLoop] = IdleCall /\ control_command_queue # <<>>) =>
          ENABLED process_control_commands
C22_LoopDoesNotWaitForPoller == [][C22_Step]_vars

\* C22 witness: two actions of the same vehicle are PENDING in the registry
\* while the control loop has the remote call of a third command in flight.
C22_Witness ==
    /\ trackers[1].last_status = "PENDING" /\ trackers[2].last_status = "PENDING"
    /\ trackers[1].vehicle_id = trackers[2].vehicle_id
    /\ trackers[1].action_id # trackers[2].action_id
    /\ active_actions[trackers[1].action_id] = 1
    /\ active_actions[trackers[2].action_id] = 2
    /\ api[ControlLoop].phase = "remote"

\* C23: a poller that publishes SUCCESS for its action calls refresh_force
\* once, and publishes the vehicle data when that call returns; a poller that
\* publishes any other final status calls no refresh and ends; when the
\* follow-up refresh fails or is rejected, the action stays SUCCESS, no
\* further status and no vehicle data are published, and the poller ends.
C23_Step ==
    \A k \in 1..MaxPollers :
        LET t == PollerTask(k)
            rec == IF trackers'[k] # NoTracker THEN trackers'[k] ELSE outcome'.finished
        IN  /\ (api[t].method = "refresh_force") => trackers[k].last_status = "SUCCESS"
            /\ (/\ api[t].method = "check_action_status"
                /\ outcome'.task = t
                /\ api'[t].method # "check_action_status") =>
                  /\ Len(rec.published) = 2
                  /\ rec.published[2].status = rec.last_status
                  /\ IF rec.last_status = "SUCCESS"
                     THEN /\ outcome'.gate_method = "refresh_force"
                          /\ \/ /\ outcome'.gate = "admitted"
                                /\ api'[t].phase = "remote"
                                /\ api'[t].method = "refresh_force"
                                /\ api'[t].attempts = 1
                                /\ trackers'[k] = rec
                             \/ /\ outcome'.gate = "rejected"
                                /\ outcome'.finished = rec
                                /\ api'[t] = IdleCall
                          /\ outcome'.pubs = <<>>
                     ELSE /\ outcome'.gate_method # "refresh_force"
                          /\ outcome'.finished = rec
                          /\ trackers'[k] = NoTracker
                          /\ api'[t] = IdleCall
                          /\ outcome'.pubs = <<>>
            /\ (/\ api[t].method = "refresh_force"
                /\ outcome'.task = t
                /\ api'[t].method # "refresh_force") =>
                  /\ api'[t] = IdleCall
                  /\ trackers'[k] = NoTracker
                  /\ outcome'.finished.last_status = "SUCCESS"
                  /\ outcome'.finished.error_message = ""
                  /\ Len(outcome'.finished.published) = 2
                  /\ outcome'.finished.published[2].status = "SUCCESS"
                  /\ IF outcome'.raised = ""
                     THEN /\ Len(outcome'.pubs) = 1
                          /\ outcome'.pubs[1].leaf = "data"
                          /\ outcome'.pubs[1].vehicle_id = outcome'.finished.vehicle_id
                          /\ outcome'.pubs[1].value = UpdateMethod("refresh_force")
                     ELSE outcome'.pubs = <<>>
C23_SuccessRefreshesOnce == [][C23_Step]_vars

\* C23 happens: the follow-up refresh of a SUCCESS action has just failed
C23_Witness ==
    /\ outcome.task = PollerTask(1)
    /\ outcome.method = "refresh_force"
    /\ outcome.call = "fail"
    /\ outcome.raised # ""
    /\ outcome.finished # NoTracker
    /\ outcome.finished.last_status = "SUCCESS"
    /\ trackers[1] = NoTracker

\* C24: a poller whose status check returns ends the action in a terminal
\* status: when the action has not reached SUCCESS, FAILED or UNKNOWN by
\* the end of the wait, the record is finalized as TIMEOUT with completed_at
\* set, TIMEOUT is the last status published, and the record has left the
\* registry; PENDING is never the status a poller ends with.
C24_TimeoutNeverPending ==
    (/\ outcome.finished # NoTracker
     /\ outcome.method = "check_action_status"
     /\ outcome.call = "ok") =>
        LET f == outcome.finished
            p == f.published
        IN  /\ f.last_status # "PENDING"
            /\ p[Len(p)].status # "PENDING"
            /\ f.last_status \notin {"SUCCESS", "FAILED", "UNKNOWN"} =>
                  /\ f.last_status = "TIMEOUT"
                  /\ p[Len(p)].status = "TIMEOUT"
                  /\ f.completed_at # None
                  /\ active_actions[f.action_id] = 0

\* ------------------------------------------------------------ shutdown
\* run() after _shutdown_event is set (main.py 135-141): cancel() is called
\* on the two loop tasks, and on nothing else, and run() awaits them.
shutdown_signal ==
    /\ service = "running"
    /\ service' = "stopping"
    /\ outcome' = NoEvent(0, "cancel")
    /\ UNCHANGED <<state_machine, message, now, ticks, circuit_breaker, token_refresh_lock, last_refresh_time, api,
                   command_queue, control_command_queue, last_command_time, accepted_timestamp,
                   handling_refresh, handling_control, trackers, active_actions>>

\* The CancelledError requested by run() reaches the loop task t.
CancelRequested(t) == service = "stopping" /\ Cancel(t)

\* run() once both loop tasks have been awaited: the finally clause calls
\* shutdown(), which disconnects MQTT without suspending (main.py 142-173).
shutdown ==
    /\ service = "stopping"
    /\ api[RefreshLoop].phase = "cancelled"
    /\ api[ControlLoop].phase = "cancelled"
    /\ service' = "stopped"
    /\ outcome' = NoEvent(0, "shutdown")
    /\ UNCHANGED <<state_machine, message, now, ticks, circuit_breaker, token_refresh_lock, last_refresh_time, api,
                   command_queue, control_command_queue, last_command_time, accepted_timestamp,
                   handling_refresh, handling_control, trackers, active_actions>>

\* asyncio.run(main()) after run() has returned (main.py 186-200): the tasks
\* still pending are cancelled.  CancelledError passes "except Exception" of
\* _poll_action_status and runs its finally block; a poller that never
\* started has no finally block to run.
cancel_all_tasks(k) ==
    /\ service = "stopped"
    /\ trackers[k] # NoTracker
    /\ LET t == PollerTask(k)
           s0 == [Cur(t, api[t].method) EXCEPT !.ev.raised = "CancelledError",
                                               !.lock = IF @ = t THEN 0 ELSE @]
       IN  Commit(IF trackers[k].poller = "spawned"
                  THEN [s0 EXCEPT !.ev.finished = [s0.tr[k] EXCEPT !.poller = "done"],
                                  !.tr[k] = NoTracker]
                  ELSE poll_finally(s0, k))
    /\ UNCHANGED <<state_machine, message, service, now, ticks, command_queue, control_command_queue, last_command_time,
                   accepted_timestamp>>

\* While the event loop of asyncio.run is alive (run() has not returned) the
\* MQTT callback, the pollers and their worker threads go on; the control
\* loop takes no step of its own once run() has called cancel() on it: the
\* next thing its task receives is the CancelledError.
LoopMayRun(t) == IF t = ControlLoop THEN service = "running" ELSE service # "stopped"
on_control_message == service # "stopped" /\ \E r \in LockParses : enqueue_control_command(r)
control_loop_step == LoopMayRun(ControlLoop) /\ process_control_commands
poller_starts(k) == LoopMayRun(PollerTask(k)) /\ _poll_action_status(k)
thread_returns(t) == LoopMayRun(t) /\ RemoteSucceeds(t)
thread_raises(t) == LoopMayRun(t) /\ RemoteFails(t)

\* The service from start to exit: lock commands and their pollers, the
\* shutdown signal at any moment; nothing runs once run() has returned but
\* the cancellation of what is left.
NextShutdown ==
    \/ on_control_message
    \/ control_loop_step
    \/ \E k \in 1..MaxActions : poller_starts(k)
    \/ \E t \in Tasks \ {RefreshLoop} : thread_returns(t)
    \/ \E t \in Tasks \ {RefreshLoop} : thread_raises(t)
    \/ shutdown_signal
    \/ \E t \in {RefreshLoop, ControlLoop} : CancelRequested(t)
    \/ shutdown
    \/ \E k \in 1..MaxActions : cancel_all_tasks(k)

SpecShutdown == Init /\ [][NextShutdown]_vars

\* C25: when the shutdown step of the service has run, both consumer loops
\* have been cancelled and awaited and no poller task is alive: no tracker
\* has a poller that is spawned or running.
C25_NoPollerSurvivesShutdown ==
    service = "stopped" =>
        /\ api[RefreshLoop].phase = "cancelled"
        /\ api[ControlLoop].phase = "cancelled"
        /\ \A k \in 1..MaxPollers : trackers[k] = NoTracker

\* ------------------------------------------------------------- parsing
\* Texts are lists of tokens: a word, a number, ":", a blank, a brace or a
\* quoted JSON string.  A topic is the list of its levels.
base_topic == "hyundai"

\* The kinds of character each topic level is made of
LevelChars ==
    [l \in {"hyundai", "other", "VIN1", "commands", "status", "refresh", "lock", "horn", "extra"}
        |-> {"alnum"}]
    @@ ("V_1-a" :> {"alnum", "_", "-"}) @@ ("V!N" :> {"alnum", "other"}) @@ ("" :> {})

\* vehicle_id.replace("_", "").replace("-", "").isalnum()
IdIsAlnum(l) == LevelChars[l] \ {"_", "-"} = {"alnum"}

\* str.strip()
RECURSIVE lstrip(_)
lstrip(s) == IF s # <<>> /\ Head(s) = " " THEN lstrip(Tail(s)) ELSE s
RECURSIVE rstrip(_)
rstrip(s) == IF s # <<>> /\ s[Len(s)] = " " THEN rstrip(SubSeq(s, 1, Len(s) - 1)) ELSE s
strip(s) == rstrip(lstrip(s))

\* position of the first ":" of a text, 0 when it has none
FirstColon(s) ==
    IF \E i \in DOMAIN s : s[i] = ":"
    THEN CHOOSE i \in DOMAIN s : s[i] = ":" /\ \A j \in 1..(i - 1) : s[j] # ":"
    ELSE 0

\* int(text): the value of a decimal literal, ValueError for anything else
Literals ==
    ("300" :> 300) @@ ("1" :> 1) @@ ("0" :> 0) @@ ("-5" :> 0 - 5)
    @@ ("604800" :> 604800) @@ ("604801" :> 604801)
int(s) ==
    LET t == strip(s)
    IN  IF Len(t) = 1 /\ t[1] \in DOMAIN Literals
        THEN [ok |-> TRUE, value |-> Literals[t[1]]]
        ELSE [ok |-> FALSE, value |-> None]

\* RefreshCommand.parse (handler.py 210-270); ok = FALSE is the CommandError
RefreshCommand_parse(topic, payload) ==
    LET fail == [ok |-> FALSE, command |-> NoRefresh]
        vehicle_id == IF Len(topic) > 1 THEN topic[2] ELSE ""
        p == strip(payload)
        c == FirstColon(p)
        cmd_type == IF c > 0 THEN strip(SubSeq(p, 1, c - 1)) ELSE p
        param == IF c > 0 THEN SubSeq(p, c + 1, Len(p)) ELSE <<>>
        smart == c > 0 /\ cmd_type = <<"smart">>
        max_age == IF smart THEN int(param).value ELSE None
    IN  IF topic = <<"">> \/ payload = <<>> THEN fail
        ELSE IF vehicle_id = "" THEN fail
        ELSE IF ~IdIsAlnum(vehicle_id) THEN fail
        ELSE IF smart /\ (~int(param).ok \/ max_age < 1 \/ max_age > 604800) THEN fail
        ELSE IF cmd_type \notin {<<"cached">>, <<"force">>, <<"smart">>} THEN fail
        ELSE IF cmd_type = <<"smart">> /\ max_age = None THEN fail
        ELSE [ok |-> TRUE,
              command |-> [command_type |-> cmd_type[1], vehicle_id |-> vehicle_id,
                           max_age_seconds |-> max_age, timestamp |-> None]]

\* TopicManager.parse_command_topic (topics.py 119-132): <<vehicle_id,
\* command_type>>, or <<>> for None
parse_command_topic(topic) ==
    IF Len(topic) >= 4 /\ topic[1] = base_topic /\ topic[3] = "commands"
    THEN <<topic[2], topic[4]>>
    ELSE <<>>

\* json.loads on the payloads below: an object with at most the key
\* "action", a scalar, or JSONDecodeError
JsonStrings == ("\"lock\"" :> "lock") @@ ("\"unlock\"" :> "unlock") @@ ("\"bogus\"" :> "bogus")
json_loads(payload) ==
    LET t == SelectSeq(payload, LAMBDA x : x # " ")
    IN  IF t = <<"{", "}">> THEN [kind |-> "object", action |-> ""]
        ELSE IF /\ Len(t) = 5
                /\ t[1] = "{" /\ t[2] = "\"action\"" /\ t[3] = ":"
                /\ t[4] \in DOMAIN JsonStrings /\ t[5] = "}"
        THEN [kind |-> "object", action |-> JsonStrings[t[4]]]
        ELSE IF Len(t) = 1 /\ (t[1] \in DOMAIN Literals \/ t[1] \in DOMAIN JsonStrings)
        THEN [kind |-> "scalar", action |-> ""]
        ELSE [kind |-> "error", action |-> ""]

\* ControlCommand.parse (handler.py 29-57); ok = FALSE is the CommandError.
\* The payload is kept as json.loads returned it: nothing in it is looked at.
ControlCommand_parse(topic, payload) ==
    LET fail == [ok |-> FALSE, command |-> NoControl]
        parsed == parse_command_topic(topic)
        payload_dict == json_loads(payload)
    IN  IF parsed = <<>> THEN fail
        ELSE IF payload_dict.kind = "error" THEN fail
        ELSE IF parsed[2] \notin {"lock", "climate", "windows", "charge_port", "charging_current"}
        THEN fail
        ELSE [ok |-> TRUE,
              command |-> [command_type |-> parsed[2], vehicle_id |-> parsed[1],
                           payload |-> [action |-> payload_dict.action, level |-> None,
                                        windows |-> <<>>]]]

\* Topics: the well-formed command topic and its deviations (another base,
\* a vehicle level that is empty or has other characters, another third
\* level, an unknown kind, a level too many, levels missing, the empty topic)
Topics ==
    {<<b, v, c, k>> : b \in {base_topic, "other"}, v \in {"VIN1", "V_1-a", "V!N", ""},
                      c \in {"commands", "status"}, k \in {"refresh", "lock", "horn"}}
    \cup {<<base_topic, "VIN1", "commands", k, "extra">> : k \in {"refresh", "lock"}}
    \cup {<<"">>, <<base_topic>>, <<base_topic, "VIN1">>, <<"other", "VIN1">>,
          <<base_topic, "VIN1", "commands">>}

\* Refresh payloads: the three modes and their deviations
RefreshPayloads ==
    {<<>>, <<" ">>, <<"cached">>, <<"force">>, <<"smart">>, <<"bogus">>,
     <<" ", "force", " ">>, <<"cached", ":", "bogus">>, <<"force", ":", "300">>, <<"cached", ":">>,
     <<"bogus", ":", "300">>, <<"smart", ":">>, <<"smart", ":", "bogus">>,
     <<"smart", ":", "300", ":", "1">>, <<" ", "smart", " ", ":", " ", "300", " ">>}
    \cup {<<"smart", ":", n>> : n \in DOMAIN Literals}

\* Control payloads: JSON objects with a known, an unknown or no action, and
\* texts that are no JSON
ControlPayloads ==
    {<<"{", "\"action\"", ":", a, "}">> : a \in DOMAIN JsonStrings}
    \cup {<<"{", "}">>, <<"{", "\"action\"", ":", "\"lock\"">>,
          <<"{", " ", "\"action\"", " ", ":", " ", "\"lock\"", " ", "}">>}

GoodTopics == {<<base_topic, "VIN1", "commands", k>> : k \in {"refresh", "lock"}}
GoodPayloads == {<<"force">>, <<"{", "\"action\"", ":", "\"lock\"", "}">>}

\* Every topic with a well-formed payload, every payload on a well-formed topic
Messages ==
    {[topic |-> t, payload |-> p] : t \in Topics, p \in GoodPayloads}
    \cup {[topic |-> t, payload |-> p] : t \in GoodTopics, p \in RefreshPayloads \cup ControlPayloads}

\* CommandHandler.enqueue_command(topic, payload) (handler.py 348-360)
enqueue_command_message(m) ==
    /\ message' = [handler |-> "enqueue_command", topic |-> m.topic, payload |-> m.payload]
    /\ enqueue_command_parsed(RefreshCommand_parse(m.topic, m.payload), MaxFifo)

\* CommandHandler.enqueue_control_command(topic, payload) (handler.py 381-392)
enqueue_control_command_message(m) ==
    /\ message' = [handler |-> "enqueue_control_command", topic |-> m.topic, payload |-> m.payload]
    /\ enqueue_control_command_parsed(
           ControlCommand_parse(m.topic, m.payload), MaxQueue)

\* The two enqueue methods on every message; nothing consumes the queues.
NextParse ==
    \/ \E m \in Messages : enqueue_command_message(m)
    \/ \E m \in Messages : enqueue_control_command_message(m)

SpecParse == Init /\ [][NextParse]_vars

\* C26: a control command whose payload is no JSON, or whose action is not
\* in the enumeration of its command type, is rejected when it is parsed:
\* enqueue_control_command leaves the control queue as it was and publishes
\* nothing.
C26_Step ==
    (message'.handler = "enqueue_control_command") =>
        LET j == json_loads(message'.payload)
            r == ControlCommand_parse(message'.topic, message'.payload)
        IN  (j.kind = "error" \/ (r.ok /\ ~_execute_command(r.command).ok)) =>
                /\ control_command_queue' = control_command_queue
                /\ outcome'.pubs = <<>>
C26_InvalidControlNeverQueued == [][C26_Step]_vars

\* The mode word and the parameter of a refresh payload, blanks aside
PayloadWords(payload) == SelectSeq(payload, LAMBDA x : x # " ")
IsSmartWithAge(w) ==
    /\ Len(w) = 3 /\ w[1] = "smart" /\ w[2] = ":"
    /\ w[3] \in DOMAIN Literals /\ Literals[w[3]] >= 1 /\ Literals[w[3]] <= 604800

\* a refresh message that is malformed: empty topic, a vehicle id with a
\* character other than alphanumerics, "_" and "-", an unknown mode, or a
\* smart parameter that is no integer or lies outside 1..604800
MalformedRefresh(m) ==
    LET w == PayloadWords(m.payload)
    IN  \/ m.topic = <<"">>
        \/ Len(m.topic) > 1 /\ "other" \in LevelChars[m.topic[2]]
        \/ w = <<>>
        \/ w[1] \notin {"cached", "force", "smart"}
        \/ w[1] = "smart" /\ Len(w) > 1 /\ ~IsSmartWithAge(w)

\* C27: enqueue_command on a malformed refresh message returns without
\* raising, leaves the refresh queue as it was and publishes nothing.
C27_Step ==
    (message'.handler = "enqueue_command" /\ MalformedRefresh(message')) =>
        /\ command_queue' = command_queue
        /\ outcome'.raised = ""
        /\ outcome'.pubs = <<>>
        /\ UNCHANGED <<control_command_queue, handling_refresh, handling_control, api>>
C27_MalformedRefreshDropped == [][C27_Step]_vars

\* C27 happens: a malformed message was handed over while a command waited
C27_Witness ==
    /\ message.handler = "enqueue_command"
    /\ MalformedRefresh(message)
    /\ Len(command_queue) = 1

\* C28: on a well-formed topic RefreshCommand.parse accepts exactly cached,
\* force and smart:<n> with n in 1..604800, giving (cached, none),
\* (force, none) and (smart, n); every other payload is a validation error,
\* so that nothing is put on the queue for it.
C28_Step ==
    (message'.handler = "enqueue_command" /\ message'.topic \in GoodTopics) =>
        LET w == PayloadWords(message'.payload)
            accepted == command_queue' # command_queue
            c == command_queue'[Len(command_queue')]
        IN  /\ accepted <=> (w \in {<<"cached">>, <<"force">>} \/ IsSmartWithAge(w))
            /\ accepted =>
                  /\ c.command_type = w[1]
                  /\ c.max_age_seconds = IF w[1] = "smart" THEN Literals[w[3]] ELSE None
C28_AcceptsExactlyThreeForms == [][C28_Step]_vars

\* C29: a command is accepted, by either enqueue method, only when its
\* topic is exactly base/vehicle_id/commands/kind with the configured base
\* and a non-empty vehicle_id of alphanumerics, "_" and "-".
WellFormedTopic(t) ==
    /\ Len(t) = 4
    /\ t[1] = base_topic
    /\ t[3] = "commands"
    /\ t[2] # ""
    /\ LevelChars[t[2]] \subseteq {"alnum", "_", "-"}
C29_Step ==
    (command_queue' # command_queue \/ control_command_queue' # control_command_queue) =>
        WellFormedTopic(message'.topic)
C29_OnlyWellFormedTopics == [][C29_Step]_vars

\* C30: the step in which handle_command returns for a refresh command that
\* passed the throttle makes exactly one publication on the retained
\* status/error leaf of the command's vehicle: null after the vehicle data
\* when the refresh returned, the error with its type and the command type
\* when it raised or was rejected by the breaker; a throttled command, and
\* every other step of the refresh loop, publishes nothing.
C30_Step ==
    LET running == handling_refresh # NoRefresh
        dequeued == ~running /\ Len(command_queue') < Len(command_queue)
        c == IF running THEN handling_refresh ELSE Head(command_queue)
        ends == /\ running \/ dequeued
                /\ handling_refresh' = NoRefresh
                /\ api'[RefreshLoop] = IdleCall
        pubs == outcome'.pubs
        status == SelectSeq(pubs, LAMBDA p : p.leaf = "status/error")
    IN  (outcome'.task = RefreshLoop) =>
            IF outcome'.dropped = "throttled" THEN pubs = <<>>
            ELSE IF ends
            THEN /\ Len(status) = 1
                 /\ status[1].vehicle_id = c.vehicle_id
                 /\ status[1].retain
                 /\ IF outcome'.raised = ""
                    THEN /\ outcome'.call = "ok"
                         /\ status[1].value = "null"
                         /\ Len(pubs) = 2
                         /\ pubs[1].leaf = "data"
                         /\ pubs[1].vehicle_id = c.vehicle_id
                         /\ pubs[2] = status[1]
                    ELSE /\ status[1].value = "error"
                         /\ status[1].error = outcome'.raised
                         /\ status[1].error_type # ""
                         /\ status[1].command_type = c.command_type
                         /\ pubs = status
            ELSE pubs = <<>>
BreakerSteps == {1, 59, 60}

TickBreaker ==
    /\ ticks < MaxFineTicks
    /\ \E d \in BreakerSteps : now' = now + d
    /\ ticks' = ticks + 1
    /\ outcome' = NoEvent(0, "none")
    /\ UNCHANGED <<state_machine, message, service, circuit_breaker, token_refresh_lock, last_refresh_time, api,
                   command_queue, control_command_queue, last_command_time, accepted_timestamp,
                   handling_refresh, handling_control, trackers, active_actions>>

\* circuit_breaker.can_execute()
call_can_execute ==
    /\ LET g == can_execute(circuit_breaker, now)
       IN  /\ circuit_breaker' = g.cb
           /\ outcome' = [NoEvent(0, "can_execute") EXCEPT
                             !.gate = IF g.result THEN "admitted" ELSE "rejected"]
    /\ UNCHANGED <<state_machine, message, service, now, ticks, token_refresh_lock, last_refresh_time, api,
                   command_queue, control_command_queue, last_command_time, accepted_timestamp,
                   handling_refresh, handling_control, trackers, active_actions>>

\* circuit_breaker.record_success()
call_record_success ==
    /\ circuit_breaker' = record_success(circuit_breaker)
    /\ outcome' = [NoEvent(0, "record_success") EXCEPT !.recorded = "success"]
    /\ UNCHANGED <<state_machine, message, service, now, ticks, token_refresh_lock, last_refresh_time, api,
                   command_queue, control_command_queue, last_command_time, accepted_timestamp,
                   handling_refresh, handling_control, trackers, active_actions>>

\* circuit_breaker.record_failure()
call_record_failure ==
    /\ circuit_breaker.failure_count < MaxFailures
    /\ circuit_breaker' = record_failure(circuit_breaker, now)
    /\ outcome' = [NoEvent(0, "record_failure") EXCEPT !.recorded = "failure"]
    /\ UNCHANGED <<state_machine, message, service, now, ticks, token_refresh_lock, last_refresh_time, api,
                   command_queue, control_command_queue, last_command_time, accepted_timestamp,
                   handling_refresh, handling_control, trackers, active_actions>>

NextBreaker == TickBreaker \/ call_can_execute \/ call_record_success \/ call_record_failure

SpecBreaker == Init /\ [][NextBreaker]_vars

\* C32: a can_execute() call on an OPEN breaker answers true exactly when
\* the time since the last failure is at least the timeout, and then leaves
\* the breaker HALF_OPEN; for a shorter time it answers false and leaves
\* the breaker as it was.
C32_Step ==
    (outcome'.method = "can_execute" /\ circuit_breaker.state = "OPEN") =>
        IF now - circuit_breaker.last_failure_time >= timeout
        THEN /\ outcome'.gate = "admitted"
             /\ circuit_breaker' = [circuit_breaker EXCEPT !.state = "HALF_OPEN"]
        ELSE /\ outcome'.gate = "rejected"
             /\ circuit_breaker' = circuit_breaker
C32_AdmitsAtTimeout == [][C32_Step]_vars

\* C37: the breaker is CLOSED exactly when its failure_count is below the
\* threshold: OPEN and HALF_OPEN carry at least the threshold.
C37_ClosedIffBelowThreshold ==
    (circuit_breaker.state = "CLOSED") <=> (circuit_breaker.failure_count < failure_threshold)

\* C37 happens: the timeout has passed and can_execute() has let a trial
\* through, the breaker is HALF_OPEN with its count at the threshold or above
C37_Witness ==
    /\ circuit_breaker.state = "HALF_OPEN"
    /\ circuit_breaker.failure_count >= failure_threshold
    /\ outcome.method = "can_execute"
    /\ outcome.gate = "admitted"

\* ------------------------------------------------- the one shared breaker
\* HyundaiAPIClient.__init__ builds one CircuitBreaker, and the refresh loop,
\* the control loop and every poller call the remote service through that one
\* client: refresh commands of the whole fleet, lock commands and the status
\* checks of their pollers, with the clock; the credentials do not expire.
NextShared ==
    \/ Tick
    \/ \E r \in FleetRefreshParses : enqueue_command(r)
    \/ \E r \in LockParses : enqueue_control_command(r)
    \/ process_commands
    \/ process_control_commands
    \/ \E k \in 1..MaxActions : _poll_action_status(k)
    \/ \E t \in Tasks : RemoteSucceeds(t)
    \/ \E t \in Tasks : RemoteFails(t)

SpecShared == Init /\ [][NextShared]_vars

\* C31: one breaker guards every remote capability for every vehicle. A
\* failure recorded by a refresh call, a control call or an action-status
\* check, for whatever vehicle, adds one to the same failure_count; and once
\* the count has reached the threshold, every call of every capability for
\* every vehicle is rejected as long as the timeout has not elapsed since the
\* last recorded failure.
C31_Step ==
    /\ outcome'.recorded = "failure" =>
           circuit_breaker'.failure_count = circuit_breaker.failure_count + 1
    /\ ( /\ outcome'.gate # "none"
         /\ circuit_breaker.failure_count >= failure_threshold
         /\ now - circuit_breaker.last_failure_time < timeout )
       => outcome'.gate = "rejected"

C33_OnlyFourStatuses ==
    (/\ outcome.method = "check_action_status"
     /\ outcome.call = "ok"
     /\ outcome.finished # NoTracker) =>
        LET p == outcome.finished.published
        IN  /\ outcome.finished.last_status \in TerminalStatuses
            /\ p[Len(p)].status \in TerminalStatuses

\* C34: every action-status publication writes the status and started_at
\* leaves; it writes the completed_at leaf exactly when the status the record
\* has reached is terminal, and the error leaf exactly when the record holds
\* an error message; no leaf is retained.
C34_Leaves(tr) ==
    \A i \in DOMAIN tr.published :
        LET p == tr.published[i]
        IN  /\ p.status # ""
            /\ p.started_at
            /\ p.completed_at <=> p.status \in TerminalStatuses
            /\ p.error <=> (i = Len(tr.published) /\ tr.error_message # "")
            /\ ~p.retain

C34_FourLeaves ==
    /\ \A k \in 1..MaxPollers : C34_Leaves(trackers[k])
    /\ C34_Leaves(outcome.finished)

\* C34 happens: a poller has ended after two publications, PENDING without
\* completed_at and error leaves, then FAILED with both
C34_Witness ==
    LET p == outcome.finished.published
    IN  /\ Len(p) = 2
        /\ p[1].status = "PENDING" /\ ~p[1].completed_at /\ ~p[1].error
        /\ p[2].status = "FAILED" /\ p[2].completed_at /\ p[2].error

\* C35: an executed refresh command calls the remote capability of its mode
\* and no other (cached: refresh_cached, force: refresh_force, smart:
\* refresh_smart, for the vehicle and with the max_age_seconds of the command
\* being handled), and the snapshot published when the call returns carries
\* that mode as its update_method.
ModeMethod == [cached |-> "refresh_cached", force |-> "refresh_force", smart |-> "refresh_smart"]

C35_Step ==
    LET call == api[RefreshLoop]
        call2 == api'[RefreshLoop]
    IN  /\ (call.phase = "idle" /\ call2.phase = "remote") =>
              /\ handling_refresh' = Head(command_queue)
              /\ call2.method = ModeMethod[handling_refresh'.command_type]
              /\ handling_refresh'.command_type = "smart" <=> handling_refresh'.max_age_seconds # None
              /\ handling_refresh'.command_type = "smart" => handling_refresh'.max_age_seconds = 300
        /\ (call.phase = "remote" /\ call2.phase = "remote") =>
              /\ call2.method = call.method
              /\ handling_refresh' = handling_refresh
        /\ (outcome'.task = RefreshLoop /\ outcome'.call = "ok") =>
              /\ outcome'.method = ModeMethod[handling_refresh.command_type]
              /\ call.method = outcome'.method
              /\ outcome'.attempts = 1
              /\ Len(outcome'.pubs) = 2
              /\ outcome'.pubs[1].leaf = "data"
              /\ outcome'.pubs[1].vehicle_id = handling_refresh.vehicle_id
              /\ outcome'.pubs[1].value = handling_refresh.command_type

C35_ModeSelectsCapability == [][C35_Step]_vars

\* C35 happens: the refresh_smart call of a smart:300 command has returned
\* and its snapshot is published with update_method smart
C35_Witness ==
    /\ outcome.task = RefreshLoop
    /\ outcome.call = "ok"
    /\ outcome.method = "refresh_smart"
    /\ outcome.pubs[1].leaf = "data"
    /\ outcome.pubs[1].value = "smart"

\* ------------------------------------------- the state machine on its own
\* update_action_state called on one EUActionStateMachine with valid and
\* invalid states in any order, while the clock advances.
NewStates == VALID_STATES \cup {"CANCELLED", ""}

call_update_action_state(new_state) ==
    /\ Len(state_machine.state_history) <= MaxTransitions
    /\ state_machine' = update_action_state(state_machine, new_state, now)
    /\ outcome' = NoEvent(0, "update_action_state")
    /\ \/ UNCHANGED <<now, ticks>>
       \/ ticks < MaxTransitions /\ now' = now + 1 /\ ticks' = ticks + 1
    /\ UNCHANGED <<message, service, circuit_breaker, token_refresh_lock, last_refresh_time, api,
                   command_queue, control_command_queue, last_command_time, accepted_timestamp,
                   handling_refresh, handling_control, trackers, active_actions>>

NextStateMachine == \E new_state \in NewStates : call_update_action_state(new_state)

SpecStateMachine == Init /\ [][NextStateMachine]_vars

\* C36: update_action_state returns True and applies the transition
\* (current_state becomes the new state, one entry is appended to
\* state_history) only when the new state is one of the five valid states
\* and the current state is not terminal; otherwise it returns False and
\* leaves current_state and state_history as they were. So the history of
\* the machine never holds more than one terminal state.
C36_Step ==
    LET sm == state_machine
        sm2 == state_machine'
        valid == /\ sm2.new_state \in {"PENDING", "SUCCESS", "FAILED", "TIMEOUT", "UNKNOWN"}
                 /\ sm.current_state \notin TerminalStatuses
    IN  outcome'.method = "update_action_state" =>
          /\ IF valid
             THEN /\ sm2.returned
                  /\ sm2.current_state = sm2.new_state
                  /\ sm2.state_history = Append(sm.state_history, <<now, sm2.new_state>>)
             ELSE /\ ~sm2.returned
                  /\ sm2.current_state = sm.current_state
                  /\ sm2.state_history = sm.state_history
          /\ Cardinality({i \in DOMAIN sm2.state_history :
                             sm2.state_history[i][2] \in TerminalStatuses}) <= 1

C36_GuardedTransitions == [][C36_Step]_vars

\* C36 happens: a machine that had reached SUCCESS after two PENDING entries
\* has just refused a transition to FAILED
C36_Witness ==
    /\ outcome.method = "update_action_state"
    /\ state_machine.current_state = "SUCCESS"
    /\ Len(state_machine.state_history) = 3
    /\ state_machine.new_state = "FAILED"
    /\ ~state_machine.returned

\* C38: when the remote action call of a control command fails or is
\* rejected (invalid action, open circuit, remote error, failed credential
\* recovery), no ActionRecord is created, the active registry is what it was,
\* no action status is published and no poller is spawned: the one
\* publication is the error-status leaf of the command's vehicle.
C38_Step ==
    LET c == IF handling_control # NoControl THEN handling_control
             ELSE Head(control_command_queue)
    IN  (/\ outcome'.task = ControlLoop
         /\ outcome'.dropped = "invalid" \/ outcome'.raised # "") =>
            /\ trackers' = trackers
            /\ active_actions' = active_actions
            /\ outcome'.finished = NoTracker
            /\ Len(outcome'.pubs) = 1
            /\ outcome'.pubs[1].leaf = "status/error"
            /\ outcome'.pubs[1].value = "error"
            /\ outcome'.pubs[1].vehicle_id = c.vehicle_id
            /\ outcome'.pubs[1].command_type = c.command_type
            /\ api'[ControlLoop].phase = "idle"
            /\ handling_control' = NoControl

C38_FailedControlLeavesNoRecord == [][C38_Step]_vars

\* C38 happens: a control call has just failed while the action of an
\* earlier command was still registered; only the error status is published
C38_Witness ==
    /\ outcome.task = ControlLoop
    /\ outcome.call = "fail"
    /\ Len(outcome.pubs) = 1
    /\ outcome.pubs[1].leaf = "status/error"
    /\ \E a \in ActionIds : active_actions[a] # 0
    /\ \E k \in 1..MaxPollers : trackers[k] # NoTracker /\ Len(trackers[k].published) = 1

\* C39: the cleanup of a poller removes from the active registry only the
\* record of the action it was polling: every other action whose poller has
\* not finished and whose record was in the registry still has its record
\* there afterwards, whatever action identifiers the remote service returned.
C39_Step ==
    outcome'.finished # NoTracker =>
        \A k \in 1..MaxPollers :
            (/\ trackers'[k] # NoTracker
             /\ active_actions[trackers[k].action_id] = k) =>
                active_actions'[trackers'[k].action_id] = k

C39_CleanupRemovesOwnRecordOnly == [][C39_Step]_vars

\* ------------------------------------------- the ledger and failed calls
\* The refresh loop alone with the refresh commands of the whole fleet, the
\* clock advancing in steps around the minimum command interval; the remote
\* calls succeed or fail, so the breaker may open.
NextLedger ==
    \/ TickFine
    \/ \E r \in FleetRefreshParses : enqueue_command(r)
    \/ process_commands
    \/ RemoteSucceeds(RefreshLoop)
    \/ RemoteFails(RefreshLoop)

SpecLedger == Init /\ [][NextLedger]_vars

\* C40: the ledger entry of a vehicle is set when a refresh passes the
\* throttle test, in the step that goes on to the breaker's gate and before
\* any remote call returns; it is not rolled back when the call fails or the
\* open breaker rejects it; and a refresh handled less than
\* _min_command_interval seconds after the ledger entry of its vehicle was
\* set -- by a refresh that failed or was rejected as by any other -- is
\* dropped without a remote call and without a publication.
C40_Step ==
    /\ (command_queue # <<>> /\ command_queue' = Tail(command_queue)) =>
          LET v == Head(command_queue).vehicle_id
              recent == last_command_time[v] # None /\ now - last_command_time[v] < 5
          IN  IF recent
              THEN /\ outcome'.dropped = "throttled"
                   /\ outcome'.gate = "none"
                   /\ outcome'.pubs = <<>>
                   /\ api'[RefreshLoop] = api[RefreshLoop]
                   /\ circuit_breaker' = circuit_breaker
                   /\ last_command_time' = last_command_time
              ELSE /\ last_command_time'[v] = now
                   /\ outcome'.gate \in {"admitted", "rejected"}
                   /\ outcome'.call = "none"
                   /\ outcome'.gate = "admitted" => api'[RefreshLoop].phase = "remote"
    /\ (outcome'.task = RefreshLoop /\ outcome'.call = "fail") =>
          /\ last_command_time' = last_command_time
          /\ last_command_time[handling_refresh.vehicle_id] # None
          /\ outcome'.recorded = "failure"

C40_LedgerKeptOnFailure == [][C40_Step]_vars

\* C40 happens: refreshes of both vehicles were accepted at this instant and
\* failed or were rejected (the breaker is OPEN since this instant), and a
\* further refresh has just been dropped by the throttle
C40_Witness ==
    /\ outcome.dropped = "throttled"
    /\ outcome.pubs = <<>>
    /\ circuit_breaker.state = "OPEN"
    /\ circuit_breaker.last_failure_time = now
    /\ last_command_time["VIN1"] = now
    /\ last_command_time["VIN2"] = now
====
